---------------------------- MODULE Spec2Model ----------------------------
(***************************************************************************)
(* Model of the image-transform-app pixel engine:                          *)
(*   src/src/transformations/basicTransforms.js  (basic operators)         *)
(*   src/unnamed/part_001                        (edgeDetection.js)        *)
(*   src/unnamed/part_002                        (segmentation.js)         *)
(*   src/src/utils/colorUtils.js                 (hsvToRgb)                *)
(*   src/unnamed/part_000                        (App.js, the pipeline)    *)
(*                                                                         *)
(* Numbers.  JavaScript computes in IEEE doubles; this model computes the  *)
(* same expressions in exact rational arithmetic (a value is a record      *)
(* [n, d] with d > 0) and converts to a byte the way the target of the     *)
(* assignment does: a Uint8ClampedArray store clamps to [0,255] and rounds *)
(* to nearest, ties to even; Math.round rounds half up.  The two agree     *)
(* unless the exact value is a rounding tie that the double misses; the    *)
(* palettes and parameter choices below are chosen so that no value the    *)
(* model computes is such a tie.                                           *)
(*                                                                         *)
(* Buffers.  An ImageData is [width, height, data]; data is a function     *)
(* from 0 .. length-1 to bytes, indexed as in the source (R,G,B,A).        *)
(***************************************************************************)
EXTENDS Integers, Sequences, FiniteSets, TLC

VARIABLES
  \* ---- App component state (part_000) ----
  originalImage,          \* useState originalImage: an ImageData or Null
  processedImage,         \* useState processedImage: the displayed result or Null
  activeTransformations,  \* useState activeTransformations: sequence of transforms
  currentTransform,       \* useState currentTransform: the editor's transform
  effectQueue,            \* renders whose useEffect has not run yet (snapshots)
  \* ---- one run of applyAllTransformations (part_000:111-134) ----
  currentImageData,       \* the loop's currentImageData
  stageIdx,               \* number of transforms the loop has applied
  \* ---- one call of an operator ----
  imageData,              \* the operator's argument
  params,                 \* the call: operator name and parameter values
  resultData,             \* the operator's resultData / returned ImageData
  pc,                     \* position inside the running function
  \* ---- applyCannyEdgeDetection locals (part_001:91-167) ----
  blurredData, sobelData, thresholded,
  \* ---- applySegmentation locals (part_002:13-240) ----
  segmentMap, segmentSizes, segmentColors, currentSegment, mergeMap, preMergeMap,
  segmentList, colors,
  \* ---- the arrays and objects allocated so far, by reference 1, 2, ... ----
  heap

appVars == <<originalImage, processedImage, activeTransformations, currentTransform,
             effectQueue>>
loopVars == <<currentImageData, stageIdx>>
callVars == <<imageData, params, resultData>>
cannyVars == <<blurredData, sobelData, thresholded>>
segVars == <<segmentMap, segmentSizes, segmentColors, currentSegment, mergeMap,
             preMergeMap, segmentList, colors>>
heapVars == <<heap>>
vars == <<appVars, loopVars, callVars, pc, cannyVars, segVars, heapVars>>

Null == [null |-> TRUE]

-----------------------------------------------------------------------------
(* Arithmetic helpers *)


\* A rational number n/d, d > 0.
Rat(n, d) == [n |-> n, d |-> d]

\* clamp(value) of basicTransforms.js: Math.min(255, Math.max(0, value)).
clamp(value) ==
  IF value.n < 0 THEN Rat(0, 1)
  ELSE IF value.n > 255 * value.d THEN Rat(255, 1)
  ELSE value

\* Storing a number into a Uint8ClampedArray element: clamp to [0,255], round to
\* the nearest integer, ties to even (ECMAScript ToUint8Clamp).
ToUint8Clamp(value) ==
  IF value.n <= 0 THEN 0
  ELSE IF value.n >= 255 * value.d THEN 255
  ELSE LET q == value.n \div value.d
           r == value.n % value.d
       IN IF 2 * r < value.d THEN q
          ELSE IF 2 * r > value.d THEN q + 1
          ELSE IF q % 2 = 0 THEN q ELSE q + 1

\* Math.round: round half up (towards +Infinity).
MathRound(value) == (2 * value.n + value.d) \div (2 * value.d)

\* Storing Math.sqrt(n) for an integer n >= 0 into a Uint8ClampedArray element.
\* sqrt(n) is an integer or irrational, so the rounding never meets a tie:
\* the result is the least k with n < (k + 1/2)^2, at most 255 (found by
\* bisection).
RECURSIVE SqrtSearch(_, _, _)
SqrtSearch(n, lo, hi) ==
  IF lo = hi THEN lo
  ELSE LET mid == (lo + hi) \div 2
       IN IF 4 * n < (2 * mid + 1) * (2 * mid + 1)
          THEN SqrtSearch(n, lo, mid)
          ELSE SqrtSearch(n, mid + 1, hi)

StoreSqrt(n) == SqrtSearch(n, 0, 255)

-----------------------------------------------------------------------------
(* ImageData *)

\* new ImageData(data, width, height)
ImageDataMutSwapsSides(data, width, height) ==
  [width |-> height, height |-> width, data |-> data]
ImageData(data, width, height) == [width |-> width, height |-> height, data |-> data]

\* data.length
Length(data) == Cardinality(DOMAIN data)

\* new Uint8ClampedArray(length): zero filled

\* The buffer of a width x height image whose pixel p (raster index) is px[p],
\* a tuple <<r, g, b, a>>.
MkImage(width, height, px) ==
  ImageData([i \in 0..(width * height * 4 - 1) |-> px[i \div 4][(i % 4) + 1]],
            width, height)

\* Pixel p of a buffer as <<r, g, b, a>>.
PixelAt(data, p) == <<data[4 * p], data[4 * p + 1], data[4 * p + 2], data[4 * p + 3]>>

-----------------------------------------------------------------------------
(* basicTransforms.js *)

\* factor of applyContrast, as a rational: (259*(contrast+255)) / (255*(259-contrast)).
\* The slider gives contrast in 0..200, so the denominator is positive.
contrastFactor(contrast) ==
  Rat(259 * (contrast + 255), 255 * (259 - contrast))

\* factor * (v - 128) + 128
contrastValue(factor, v) ==
  Rat(factor.n * (v - 128) + 128 * factor.d, factor.d)

applyContrast(img, contrast) ==
  LET data == img.data
      factor == contrastFactor(contrast)
  IN ImageData([i \in DOMAIN data |->
                  IF i % 4 = 3 THEN data[i]
                  ELSE ToUint8Clamp(clamp(contrastValue(factor, data[i])))],
               img.width, img.height)

applyBrightness(img, brightness) ==
  LET data == img.data
  IN ImageData([i \in DOMAIN data |->
                  IF i % 4 = 3 THEN data[i]
                  ELSE ToUint8Clamp(clamp(Rat(data[i] * brightness, 100)))],
               img.width, img.height)

\* The luminance average of the pixel whose first byte is at index b.
grayAvgMutWeights(data, b) ==
  Rat(299 * data[b] + 587 * data[b + 1] + 144 * data[b + 2], 1000)
grayAvg(data, b) ==
  Rat(299 * data[b] + 587 * data[b + 1] + 114 * data[b + 2], 1000)

applyGrayscale(img) ==
  LET data == img.data
      \* the avg stored for pixel p
      avg == [p \in 0..((Length(data) \div 4) - 1) |-> ToUint8Clamp(grayAvg(data, 4 * p))]
  IN ImageData([i \in DOMAIN data |-> IF i % 4 = 3 THEN data[i] ELSE avg[i \div 4]],
               img.width, img.height)

\* value = data[i] < threshold ? 0 : 255
thresholdValueMutKeepsGray(gray, threshold) ==
  IF gray < threshold THEN 0 ELSE gray
thresholdValue(gray, threshold) ==
  IF gray < threshold THEN 0 ELSE 255

applyThreshold(img, threshold) ==
  LET data == applyGrayscale(img).data
  IN ImageData([i \in DOMAIN data |->
                  IF i % 4 = 3 THEN data[i]
                  ELSE thresholdValue(data[i - (i % 4)], threshold)],
               img.width, img.height)

\* The sharpen kernel's weighted sum at pixel (x, y), channel c, factor amount/10:
\* centre * (1 + 4f) - f * (left + right + up + down).
sharpenSum(data, width, x, y, c, amount) ==
  LET at(dx, dy) == data[((y + dy) * width + (x + dx)) * 4 + c]
  IN Rat(at(0, 0) * (10 + 4 * amount)
           - amount * (at(-1, 0) + at(1, 0) + at(0, -1) + at(0, 1)), 10)

applySharpen(img, amount) ==
  IF amount = 0 THEN img
  ELSE
    LET data == img.data
        width == img.width
        height == img.height
    IN ImageData([i \in DOMAIN data |->
                    LET p == i \div 4
                        x == p % width
                        y == p \div width
                    IN IF /\ i % 4 # 3
                          /\ x >= 1 /\ x < width - 1
                          /\ y >= 1 /\ y < height - 1
                       THEN ToUint8Clamp(clamp(sharpenSum(data, width, x, y, i % 4, amount)))
                       ELSE data[i]],
                 width, height)

-----------------------------------------------------------------------------
(* edgeDetection.js (part_001) *)

kernelX == <<-1, 0, 1, -2, 0, 2, -1, 0, 1>>
kernelY == <<-1, -2, -1, 0, 0, 0, 1, 2, 1>>

\* Whether (x, y) is visited by a "for y = r .. height-r-1, x = r .. width-r-1" loop.
Interior(width, height, x, y, r) ==
  /\ x >= r /\ x < width - r
  /\ y >= r /\ y < height - r

\* sumX / sumY of the Sobel convolution at (x, y): the kernel over the R byte of
\* the grayscale buffer.
sobelSum(data, width, x, y, kernel) ==
  LET term(k) == data[((y + (k \div 3) - 1) * width + (x + (k % 3) - 1)) * 4]
                   * kernel[k + 1]
  IN term(0) + term(1) + term(2) + term(3) + term(4) + term(5) + term(6)
       + term(7) + term(8)

\* Math.sqrt(sumX * sumX + sumY * sumY) as stored into resultData.
sobelMagnitude(data, width, x, y) ==
  LET sumX == sobelSum(data, width, x, y, kernelX)
      sumY == sobelSum(data, width, x, y, kernelY)
  IN StoreSqrt(sumX * sumX + sumY * sumY)

\* The border pass of applySobelEdgeDetection: the pixels it does not skip.
sobelBorderMutSkipsLastRow(width, height, x, y) ==
  x = 0 \/ x = width - 1 \/ y = 0
sobelBorder(width, height, x, y) ==
  ~(x # 0 /\ x # width - 1 /\ y # 0 /\ y # height - 1)

applySobelEdgeDetection(img) ==
  LET data == applyGrayscale(img).data
      width == img.width
      height == img.height
      \* <<R = G = B, alpha>> of pixel p: resultData starts zero filled, the
      \* convolution loop writes the interior and the border pass the border.
      value == [p \in 0..(width * height - 1) |->
                  IF sobelBorder(width, height, p % width, p \div width) THEN <<0, 255>>
                  ELSE IF Interior(width, height, p % width, p \div width, 1)
                  THEN <<sobelMagnitude(data, width, p % width, p \div width), 255>>
                  ELSE <<0, 0>>]
  IN ImageData([i \in 0..(Length(data) - 1) |->
                  IF i \div 4 >= width * height THEN 0
                  ELSE IF i % 4 = 3 THEN value[i \div 4][2]
                  ELSE value[i \div 4][1]],
               width, height)

\* The 5x5 Gaussian kernel and its sum (kernel.reduce).
gaussKernel == <<2, 4, 5, 4, 2,  4, 9, 12, 9, 4,  5, 12, 15, 12, 5,
                 4, 9, 12, 9, 4,  2, 4, 5, 4, 2>>

RECURSIVE SeqSum(_, _)
SeqSum(s, k) == IF k = 0 THEN 0 ELSE s[k] + SeqSum(s, k - 1)

kernelSum == SeqSum(gaussKernel, Len(gaussKernel))

RECURSIVE gaussAcc(_, _, _, _, _, _)
gaussAcc(data, width, x, y, c, k) ==
  IF k < 0 THEN 0
  ELSE data[((y + (k \div 5) - 2) * width + (x + (k % 5) - 2)) * 4 + c]
         * gaussKernel[k + 1]
       + gaussAcc(data, width, x, y, c, k - 1)

\* Math.round(sumR) for channel c at (x, y): the normalized-kernel sum, rounded.
gaussValue(data, width, x, y, c) ==
  MathRound(Rat(gaussAcc(data, width, x, y, c, 24), kernelSum))

applyGaussianBlur(img) ==
  LET data == img.data
      width == img.width
      height == img.height
  IN ImageData([i \in DOMAIN data |->
                  LET p == i \div 4
                      x == p % width
                      y == p \div width
                  IN IF i % 4 # 3 /\ Interior(width, height, x, y, 2)
                     THEN ToUint8Clamp(Rat(gaussValue(data, width, x, y, i % 4), 1))
                     ELSE data[i]],
               width, height)

\* The double threshold's class of one magnitude.
edgeClassMutInclusive(magnitude, lowThreshold, highThreshold) ==
  IF magnitude >= highThreshold THEN 255
  ELSE IF magnitude >= lowThreshold THEN 128
  ELSE 0
edgeClass(magnitude, lowThreshold, highThreshold) ==
  IF magnitude > highThreshold THEN 255
  ELSE IF magnitude > lowThreshold THEN 128
  ELSE 0

\* "Apply double threshold": resultData after the first loop.
doubleThreshold(data, lowThreshold, highThreshold) ==
  [i \in 0..(Length(data) - 1) |->
     IF i % 4 = 3 THEN 255
     ELSE edgeClass(data[i - (i % 4)], lowThreshold, highThreshold)]

\* hasStrongNeighbor for the pixel (x, y) of the array rd being rewritten.
hasStrongNeighborMutFourConnected(rd, width, x, y) ==
  \E ky \in -1..1, kx \in -1..1 :
     /\ (ky = 0) # (kx = 0)
     /\ rd[((y + ky) * width + (x + kx)) * 4] = 255
hasStrongNeighbor(rd, width, x, y) ==
  \E ky \in -1..1, kx \in -1..1 :
     /\ ~(ky = 0 /\ kx = 0)
     /\ rd[((y + ky) * width + (x + kx)) * 4] = 255

\* One iteration of the hysteresis loop body, at raster index p: the array is
\* rewritten in place, so later pixels read what earlier iterations wrote.
hysteresisPixel(rd, width, height, p) ==
  LET x == p % width
      y == p \div width
      pixelIndex == p * 4
  IN IF Interior(width, height, x, y, 1) /\ rd[pixelIndex] = 128
     THEN LET v == IF hasStrongNeighbor(rd, width, x, y) THEN 255 ELSE 0
          IN [rd EXCEPT ![pixelIndex] = v, ![pixelIndex + 1] = v, ![pixelIndex + 2] = v]
     ELSE rd

\* The hysteresis loops from raster index p on.
RECURSIVE hysteresis(_, _, _, _)
hysteresis(rd, width, height, p) ==
  IF p >= width * height THEN rd
  ELSE hysteresis(hysteresisPixel(rd, width, height, p), width, height, p + 1)

applyCannyEdgeDetection(img, lowThreshold, highThreshold) ==
  LET blurred == applyGaussianBlur(img)
      sobel == applySobelEdgeDetection(blurred)
      width == img.width
      height == img.height
  IN ImageData(hysteresis(doubleThreshold(sobel.data, lowThreshold, highThreshold),
                          width, height, 0),
               width, height)

-----------------------------------------------------------------------------
(* colorUtils.js *)

RECURSIVE GCD(_, _)
GCD(a, b) == IF b = 0 THEN a ELSE GCD(b, a % b)

\* n/d in lowest terms (n >= 0, d > 0).
RNorm(n, d) == LET g == GCD(n, d) IN Rat(n \div g, d \div g)

RMul(a, b) ==
  LET x == RNorm(a.n, b.d)
      y == RNorm(b.n, a.d)
  IN Rat(x.n * y.n, x.d * y.d)

\* 1 - a, for 0 <= a <= 1
ROneMinus(a) == RNorm(a.d - a.n, a.d)

\* Math.round(x * 255)
round255(x) == MathRound(RMul(x, Rat(255, 1)))

\* The switch of hsvToRgb on the sector i.
hsvSector(i, v, p, q, t) ==
  CASE i = 0 -> <<v, t, p>>
    [] i = 1 -> <<q, v, p>>
    [] i = 2 -> <<p, v, t>>
    [] i = 3 -> <<p, q, v>>
    [] i = 4 -> <<t, p, v>>
    [] OTHER -> <<v, p, q>>

\* [Math.round(r * 255), Math.round(g * 255), Math.round(b * 255)]
roundRgb(rgb) == <<round255(rgb[1]), round255(rgb[2]), round255(rgb[3])>>

\* hsvToRgb for a hue hh in [0, 360).
hsvOfNormalized(hh, s, v) ==
  IF s.n = 0 THEN roundRgb(<<v, v, v>>)
  ELSE roundRgb(hsvSector(
         (hh.n \div (60 * hh.d)) % 6,                  \* Math.floor(h / 60) % 6
         v,
         RMul(v, ROneMinus(s)),
         \* f = h / 60 - Math.floor(h / 60)
         RMul(v, ROneMinus(RMul(RNorm(hh.n % (60 * hh.d), 60 * hh.d), s))),
         RMul(v, ROneMinus(RMul(ROneMinus(RNorm(hh.n % (60 * hh.d), 60 * hh.d)), s)))))

\* hsvToRgb(h, s, v) for rational h >= 0 (degrees), s and v in [0, 1]:
\* h = ((h % 360) + 360) % 360 first.
hsvToRgb(h, s, v) == hsvOfNormalized(RNorm(h.n % (360 * h.d), h.d), s, v)

-----------------------------------------------------------------------------
(* segmentation.js (part_002) *)

EmptyMap == [i \in {} |-> 0]

\* const directions = [[-1, 0], [1, 0], [0, -1], [0, 1]]
directionsMutNoRight == << <<-1, 0>>, <<-1, 0>>, <<0, -1>>, <<0, 1>> >>
directions == << <<-1, 0>>, <<1, 0>>, <<0, -1>>, <<0, 1>> >>

\* (colorDiff)^2 of two colours: a and b are records or tuples read by rgbOf.
sqDiff(r1, g1, b1, r2, g2, b2) ==
  (r1 - r2) * (r1 - r2) + (g1 - g2) * (g1 - g2) + (b1 - b2) * (b1 - b2)

\* colorDiff <= tolerance, for an integer tolerance >= 0: sqrt(x) <= t iff x <= t*t.
similar(base, nr, ng, nb, tolerance) ==
  sqDiff(base.r, base.g, base.b, nr, ng, nb) <= tolerance * tolerance

\* The state of one floodFill: the stack, the segment map and the running sums.
\* floodVisit handles direction i (1..4) of the popped position (cx, cy).
floodVisitMutRunningMean(st, data, width, height, base, tolerance, id, cx, cy, i) ==
  LET nx == cx + directions[i][1]
      ny == cy + directions[i][2]
      neighborIndex == ny * width + nx
      nIndex == neighborIndex * 4
  IN IF nx < 0 \/ nx >= width \/ ny < 0 \/ ny >= height THEN st
     ELSE IF st.segmentMap[neighborIndex] # -1 THEN st
     ELSE IF similar([r |-> MathRound(Rat(st.color.r, st.color.count)),
                      g |-> MathRound(Rat(st.color.g, st.color.count)),
                      b |-> MathRound(Rat(st.color.b, st.color.count))],
                     data[nIndex], data[nIndex + 1], data[nIndex + 2], tolerance)
     THEN [stack |-> Append(st.stack, <<nx, ny>>),
           segmentMap |-> [st.segmentMap EXCEPT ![neighborIndex] = id],
           size |-> st.size + 1,
           color |-> [r |-> st.color.r + data[nIndex],
                      g |-> st.color.g + data[nIndex + 1],
                      b |-> st.color.b + data[nIndex + 2],
                      count |-> st.color.count + 1]]
     ELSE st
floodVisit(st, data, width, height, base, tolerance, id, cx, cy, i) ==
  LET nx == cx + directions[i][1]
      ny == cy + directions[i][2]
      neighborIndex == ny * width + nx
      nIndex == neighborIndex * 4
  IN IF nx < 0 \/ nx >= width \/ ny < 0 \/ ny >= height THEN st
     ELSE IF st.segmentMap[neighborIndex] # -1 THEN st
     ELSE IF similar(base, data[nIndex], data[nIndex + 1], data[nIndex + 2], tolerance)
     THEN [stack |-> Append(st.stack, <<nx, ny>>),
           segmentMap |-> [st.segmentMap EXCEPT ![neighborIndex] = id],
           size |-> st.size + 1,
           color |-> [r |-> st.color.r + data[nIndex],
                      g |-> st.color.g + data[nIndex + 1],
                      b |-> st.color.b + data[nIndex + 2],
                      count |-> st.color.count + 1]]
     ELSE st

\* while (stack.length > 0) { pos = stack.pop(); for each direction ... }
RECURSIVE floodLoop(_, _, _, _, _, _, _)
floodLoopMutSkipsDown(st, data, width, height, base, tolerance, id) ==
  IF Len(st.stack) = 0 THEN st
  ELSE LET pos == st.stack[Len(st.stack)]
           popped == [st EXCEPT !.stack = SubSeq(st.stack, 1, Len(st.stack) - 1)]
           v1 == floodVisit(popped, data, width, height, base, tolerance, id, pos[1], pos[2], 1)
           v2 == floodVisit(v1, data, width, height, base, tolerance, id, pos[1], pos[2], 2)
           v3 == floodVisit(v2, data, width, height, base, tolerance, id, pos[1], pos[2], 3)
       IN floodLoop(v3, data, width, height, base, tolerance, id)
floodLoop(st, data, width, height, base, tolerance, id) ==
  IF Len(st.stack) = 0 THEN st
  ELSE LET pos == st.stack[Len(st.stack)]
           popped == [st EXCEPT !.stack = SubSeq(st.stack, 1, Len(st.stack) - 1)]
           v1 == floodVisit(popped, data, width, height, base, tolerance, id, pos[1], pos[2], 1)
           v2 == floodVisit(v1, data, width, height, base, tolerance, id, pos[1], pos[2], 2)
           v3 == floodVisit(v2, data, width, height, base, tolerance, id, pos[1], pos[2], 3)
           v4 == floodVisit(v3, data, width, height, base, tolerance, id, pos[1], pos[2], 4)
       IN floodLoop(v4, data, width, height, base, tolerance, id)

\* The state floodFill starts its loop from: the seed pushed and counted.
floodStartMutSeedNotCounted(smap, width, x, y, base, id) ==
  [stack |-> << <<x, y>> >>,
   segmentMap |-> [smap EXCEPT ![y * width + x] = id],
   size |-> 0,
   color |-> [r |-> base.r, g |-> base.g, b |-> base.b, count |-> 1]]
floodStart(smap, width, x, y, base, id) ==
  [stack |-> << <<x, y>> >>,
   segmentMap |-> [smap EXCEPT ![y * width + x] = id],
   size |-> 1,
   color |-> [r |-> base.r, g |-> base.g, b |-> base.b, count |-> 1]]

\* "Calculate average color for segment": Math.round(sum / count) per channel.
averageColor(c) ==
  [r |-> MathRound(Rat(c.r, c.count)),
   g |-> MathRound(Rat(c.g, c.count)),
   b |-> MathRound(Rat(c.b, c.count)),
   count |-> c.count]

\* floodFill(x, y, baseR, baseG, baseB) for segment id: the final loop state.
floodFill(smap, data, width, height, x, y, tolerance, id) ==
  LET pixelIndex == (y * width + x) * 4
      base == [r |-> data[pixelIndex], g |-> data[pixelIndex + 1], b |-> data[pixelIndex + 2]]
  IN floodLoop(floodStart(smap, width, x, y, base, id),
               data, width, height, base, tolerance, id)

\* The unassigned pixels, and the one the raster scan of "Process all pixels"
\* meets first.
Unassigned(smap) == { p \in DOMAIN smap : smap[p] = -1 }
FirstUnassigned(smap) == CHOOSE p \in Unassigned(smap) : \A q \in Unassigned(smap) : p <= q

\* The neighbors Set of the merge pass for segment i as Array.from gives it, in
\* insertion order.  Probe k is direction (k % 4) + 1 of pixel k \div 4; a value
\* is inserted by the first probe that meets it.
probeTarget(width, k) ==
  <<((k \div 4) % width) + directions[(k % 4) + 1][1],
    ((k \div 4) \div width) + directions[(k % 4) + 1][2]>>

probeAdds(smap, width, height, i, k) ==
  LET n == probeTarget(width, k)
  IN /\ smap[k \div 4] = i
     /\ ~(n[1] < 0 \/ n[1] >= width \/ n[2] < 0 \/ n[2] >= height)
     /\ smap[n[2] * width + n[1]] # i
     /\ smap[n[2] * width + n[1]] # -1

probeValueMutNeighbourItself(smap, mm, width, k) ==
  LET n == probeTarget(width, k) IN smap[n[2] * width + n[1]]
probeValue(smap, mm, width, k) ==
  LET n == probeTarget(width, k) IN mm[smap[n[2] * width + n[1]]]

inInsertionOrder(probes, smap, mm, width) ==
  LET values == { probeValue(smap, mm, width, k) : k \in probes }
      first == [v \in values |->
                  CHOOSE k \in probes :
                    /\ probeValue(smap, mm, width, k) = v
                    /\ \A j \in probes : probeValue(smap, mm, width, j) = v => k <= j]
  IN [j \in 1..Cardinality(values) |->
        CHOOSE v \in values : Cardinality({ u \in values : first[u] < first[v] }) = j - 1]

neighborsOf(smap, mm, width, height, i) ==
  inInsertionOrder({ k \in 0..(4 * width * height - 1) : probeAdds(smap, width, height, i, k) },
                   smap, mm, width)

\* "Find closest neighbor by color": the loop over neighborArray from index j,
\* with the best so far (-1: none) and its squared difference (-1: Infinity).
\* sqrt is increasing, so colorDiff < minColorDiff compares the squares.
RECURSIVE bestNeighbor(_, _, _, _, _, _)
bestNeighbor(scolors, i, neighborArray, j, best, minSq) ==
  IF j > Len(neighborArray) THEN best
  ELSE LET n == neighborArray[j]
           d == sqDiff(scolors[i].r, scolors[i].g, scolors[i].b,
                       scolors[n].r, scolors[n].g, scolors[n].b)
       IN IF minSq = -1 \/ d < minSq
          THEN bestNeighbor(scolors, i, neighborArray, j + 1, n, d)
          ELSE bestNeighbor(scolors, i, neighborArray, j + 1, best, minSq)

\* "Find small segments and merge them": the loop from segment i on.
RECURSIVE mergePass(_, _, _, _, _, _, _, _, _)
mergePassMutNoSizeGuard(mm, smap, sizes, scolors, width, height, minSize, n, i) ==
  IF i >= n THEN mm
  ELSE LET neighborArray == neighborsOf(smap, mm, width, height, i)
           best == bestNeighbor(scolors, i, neighborArray, 1, -1, -1)
       IN mergePass(IF best # -1 THEN [mm EXCEPT ![i] = best] ELSE mm,
                    smap, sizes, scolors, width, height, minSize, n, i + 1)
mergePass(mm, smap, sizes, scolors, width, height, minSize, n, i) ==
  IF i >= n THEN mm
  ELSE IF sizes[i] < minSize
  THEN LET neighborArray == neighborsOf(smap, mm, width, height, i)
           best == bestNeighbor(scolors, i, neighborArray, 1, -1, -1)
       IN mergePass(IF best # -1 THEN [mm EXCEPT ![i] = best] ELSE mm,
                    smap, sizes, scolors, width, height, minSize, n, i + 1)
  ELSE mergePass(mm, smap, sizes, scolors, width, height, minSize, n, i + 1)

\* The while loop "while (mergeMap[target] !== target) target = mergeMap[target]"
\* from target, given at most fuel more iterations: the final target, or -1 when
\* the fuel runs out.  A chain without a cycle has fewer links than segments.
RECURSIVE followChain(_, _, _)
followChainMutOneHop(mm, target, fuel) ==
  mm[target]
followChain(mm, target, fuel) ==
  IF mm[target] = target THEN target
  ELSE IF fuel = 0 THEN -1
  ELSE followChain(mm, mm[target], fuel - 1)

\* "Apply merge mapping (flatten merge chains)": the loop from segment i on.
\* done is FALSE when a while loop never ends.
RECURSIVE flatten(_, _, _)
flatten(mm, n, i) ==
  IF i >= n THEN [done |-> TRUE, mergeMap |-> mm]
  ELSE LET target == followChain(mm, i, n)
       IN IF target = -1 THEN [done |-> FALSE, mergeMap |-> mm]
          ELSE flatten([mm EXCEPT ![i] = target], n, i + 1)

RECURSIVE uniqueSegmentsMutPrepends(_, _, _, _)
RECURSIVE uniqueSegments(_, _, _, _)
uniqueSegmentsMutPrepends(mm, n, i, acc) ==
  IF i >= n THEN acc
  ELSE uniqueSegmentsMutPrepends(mm, n, i + 1,
                      IF \E j \in 1..Len(acc) : acc[j] = mm[i] THEN acc
                      ELSE <<mm[i]>> \o acc)

\* Array.from(uniqueSegments): the values mergeMap[0], mergeMap[1], ... in the
\* order of their first insertion.
uniqueSegments(mm, n, i, acc) ==
  IF i >= n THEN acc
  ELSE uniqueSegments(mm, n, i + 1,
                      IF \E j \in 1..Len(acc) : acc[j] = mm[i] THEN acc
                      ELSE Append(acc, mm[i]))

\* The values Math.random() * 360 takes in the model.
HueChoices == { Rat(0, 1), Rat(200, 1) }

\* The schemes whose colours come from Math.random().
usesRandomHueMutPastel(colorScheme) == colorScheme \in {"preserveBrightness", "pastel"}
usesRandomHue(colorScheme) == colorScheme = "preserveBrightness"

\* The colour of entry i (0-based) of a segmentList of length n under a scheme;
\* hue is the value of Math.random() * 360 drawn for the entry.
schemeColor(colorScheme, i, n, origColor, hue) ==
  IF usesRandomHue(colorScheme)
  THEN hsvToRgb(hue, Rat(4, 5),
                RNorm(299 * origColor.r + 587 * origColor.g + 114 * origColor.b, 255000))
  ELSE CASE colorScheme = "pastel" ->
              hsvToRgb(Rat(i * 360, n), Rat(2, 5), Rat(19, 20))
         [] colorScheme = "grayscale" ->
              LET value == 255 - MathRound(Rat(i * 220, n)) IN <<value, value, value>>
         [] colorScheme = "highContrast" ->
              hsvToRgb(Rat((i * 275) % 720, 2), Rat(1, 1), Rat(1, 1))
         [] OTHER ->   \* "rainbow" and the default branch
              hsvToRgb(Rat(i * 360, n), Rat(4, 5), Rat(9, 10))

\* The sequences of hues Math.random() may give a call of
\* assignColorsToSegments on n segments: one hue per segment where the scheme
\* draws them, none otherwise.
HuesDrawn(colorScheme, n) ==
  IF usesRandomHue(colorScheme) THEN [1..n -> HueChoices] ELSE {<<>>}

\* assignColorsToSegments(segmentList, segmentColors, colorScheme); hues[k] is
\* the random hue drawn for entry k (1-based) of segmentList.
assignColorsToSegments(sl, scolors, colorScheme, hues) ==
  [sg \in { sl[k] : k \in 1..Len(sl) } |->
     LET k == CHOOSE j \in 1..Len(sl) : sl[j] = sg
         rgb == schemeColor(colorScheme, k - 1, Len(sl), scolors[sg],
                            IF k \in DOMAIN hues THEN hues[k] ELSE Rat(0, 1))
     IN [r |-> rgb[1], g |-> rgb[2], b |-> rgb[3]]]

\* "Apply colors to the result image"
paint(rd, smap, mm, cols) ==
  [i \in DOMAIN rd |->
     LET index == i \div 4
     IN IF i % 4 = 3 \/ index \notin DOMAIN smap \/ smap[index] = -1
           \/ mm[smap[index]] \notin DOMAIN cols
        THEN rd[i]
        ELSE LET color == cols[mm[smap[index]]]
             IN IF i % 4 = 0 THEN color.r ELSE IF i % 4 = 1 THEN color.g ELSE color.b]

\* The locals of applySegmentation when its raster scan has ended, from the
\* state st of the scan.
RECURSIVE growAll(_, _, _, _, _)
growAll(st, data, width, height, tolerance) ==
  IF Unassigned(st.segmentMap) = {} THEN st
  ELSE LET index == FirstUnassigned(st.segmentMap)
           f == floodFill(st.segmentMap, data, width, height, index % width,
                          index \div width, tolerance, st.currentSegment)
       IN growAll([segmentMap |-> f.segmentMap,
                   segmentSizes |-> st.segmentSizes @@ (st.currentSegment :> f.size),
                   segmentColors |-> st.segmentColors
                                       @@ (st.currentSegment :> averageColor(f.color)),
                   currentSegment |-> st.currentSegment + 1],
                  data, width, height, tolerance)

\* The locals of applySegmentation after the flattening loop and the collection
\* of segmentList, from the locals g of the scan and the outcome flat of the
\* flattening loop; done is FALSE when that loop never ends.
collected(g, flat) ==
  [done |-> flat.done, segmentMap |-> g.segmentMap, mergeMap |-> flat.mergeMap,
   segmentColors |-> g.segmentColors,
   segmentList |-> IF flat.done
                   THEN uniqueSegments(flat.mergeMap, g.currentSegment, 0, <<>>)
                   ELSE <<>>]

\* The merge pass and the flattening loop on the locals g of the scan.
merged(g, width, height, minSize) ==
  collected(g, flatten(mergePass([i \in 0..(g.currentSegment - 1) |-> i], g.segmentMap,
                                 g.segmentSizes, g.segmentColors, width, height,
                                 minSize, g.currentSegment, 0),
                       g.currentSegment, 0))

\* applySegmentation up to segmentList: the locals assignColorsToSegments and
\* the painting loop read.
segmentsOf(img, tolerance, minSize) ==
  merged(growAll([segmentMap |-> [p \in 0..(img.width * img.height - 1) |-> -1],
                  segmentSizes |-> EmptyMap, segmentColors |-> EmptyMap,
                  currentSegment |-> 0],
                 img.data, img.width, img.height, tolerance),
         img.width, img.height, minSize)

\* The colouring and painting of applySegmentation on the locals sg; Null when
\* the call never returns.
painted(img, sg, colorScheme, hues) ==
  IF ~sg.done THEN Null
  ELSE ImageData(paint(img.data, sg.segmentMap, sg.mergeMap,
                       assignColorsToSegments(sg.segmentList, sg.segmentColors,
                                              colorScheme, hues)),
                 img.width, img.height)

\* applySegmentation(imageData, tolerance, minSize, colorScheme) with the random
\* hues it draws.
applySegmentation(img, tolerance, minSize, colorScheme, hues) ==
  painted(img, segmentsOf(img, tolerance, minSize), colorScheme, hues)

-----------------------------------------------------------------------------
(* App.js (part_000) *)

\* The initial params of currentTransform.
DefaultParams ==
  [contrastValue |-> 100, brightnessValue |-> 100, sharpnessValue |-> 0,
   thresholdValue |-> 128, cannyLow |-> 50, cannyHigh |-> 150,
   segmentTolerance |-> 20, segmentMinSize |-> 100, colorScheme |-> "rainbow"]

\* A transform of the given type whose params differ from the initial ones in
\* the fields of the record changes.
Transform(type, changes) ==
  [type |-> type,
   params |-> [f \in DOMAIN DefaultParams |->
                 IF f \in DOMAIN changes THEN changes[f] ELSE DefaultParams[f]]]

\* The sequences of random hues a call of applyTransformation may draw.
HuesFor(img, transform) ==
  IF transform.type = "segmentation"
  THEN HuesDrawn(transform.params.colorScheme,
                 Len(segmentsOf(img, transform.params.segmentTolerance,
                                transform.params.segmentMinSize).segmentList))
  ELSE {<<>>}

\* default: return imageData
unrecognizedMutInverts(img) ==
  ImageData([i \in DOMAIN img.data |-> IF i % 4 = 3 THEN img.data[i] ELSE 255 - img.data[i]],
            img.width, img.height)
unrecognized(img) == img

\* applyTransformation(imageData, transform); Null when the call never returns.
applyTransformation(img, transform, hues) ==
  LET type == transform.type
      ps == transform.params
  IN CASE type = "contrast" -> applyContrast(img, ps.contrastValue)
       [] type = "brightness" -> applyBrightness(img, ps.brightnessValue)
       [] type = "sharpening" -> applySharpen(img, ps.sharpnessValue)
       [] type = "threshold" -> applyThreshold(img, ps.thresholdValue)
       [] type = "grayscale" -> applyGrayscale(img)
       [] type = "edges" -> applySobelEdgeDetection(img)
       [] type = "canny" -> applyCannyEdgeDetection(img, ps.cannyLow, ps.cannyHigh)
       [] type = "segmentation" ->
            applySegmentation(img, ps.segmentTolerance, ps.segmentMinSize,
                              ps.colorScheme, hues)
       [] OTHER -> unrecognized(img)

-----------------------------------------------------------------------------
(* Values of the variables a specification does not use *)

IdleApp ==
  /\ originalImage = Null /\ processedImage = Null
  /\ activeTransformations = <<>> /\ currentTransform = Null
  /\ effectQueue = <<>>
IdleLoop == currentImageData = Null /\ stageIdx = 0
IdleCall == imageData = Null /\ params = Null /\ resultData = Null
IdleCanny == blurredData = Null /\ sobelData = Null /\ thresholded = Null
IdleHeap == heap = <<>>
IdleSeg ==
  /\ segmentMap = Null /\ segmentSizes = Null /\ segmentColors = Null
  /\ currentSegment = 0 /\ mergeMap = Null /\ preMergeMap = Null
  /\ segmentList = Null /\ colors = Null

-----------------------------------------------------------------------------
(* SpecOps: one call of a basic operator or of Sobel on a drawn image *)

\* Largest number of pixels of a drawn image.
MaxPixels == 9

\* Pixels the drawn images are made of: the grey of the spec's contrast scenario
\* and a coloured, half-transparent pixel.
OpPalette == { <<100, 100, 100, 255>>, <<200, 30, 60, 128>> }

\* All width x height images over a palette.
ImagesOver(width, height, palette) ==
  { MkImage(width, height, px) : px \in [0..(width * height - 1) -> palette] }

\* The (width, height) pairs of images of at most n pixels.
Dims(n) == { d \in (1..n) \X (1..n) : d[1] * d[2] <= n }

OpImages == UNION { ImagesOver(d[1], d[2], OpPalette) : d \in Dims(MaxPixels) }

\* Slider values drawn for the calls (TransformationControls.js: contrast and
\* brightness 0..200, sharpness 0..10, threshold 0..255).
ContrastChoices == {0, 100, 200}
BrightnessChoices == {50, 100, 200}
SharpnessChoices == {0, 5, 10}
ThresholdChoices == {0, 90, 255}

InitOps ==
  /\ imageData \in OpImages
  /\ params = Null /\ resultData = Null
  /\ pc = "ready"
  /\ IdleApp /\ IdleLoop /\ IdleCanny /\ IdleSeg /\ IdleHeap

Return(call, result) ==
  /\ pc = "ready"
  /\ params' = call
  /\ resultData' = result
  /\ pc' = "returned"
  /\ UNCHANGED <<heapVars, imageData, appVars, loopVars, cannyVars, segVars>>

CallContrast ==
  \E c \in ContrastChoices :
     Return([type |-> "contrast", contrastValue |-> c], applyContrast(imageData, c))

CallBrightness ==
  \E b \in BrightnessChoices :
     Return([type |-> "brightness", brightnessValue |-> b], applyBrightness(imageData, b))

CallSharpen ==
  \E a \in SharpnessChoices :
     Return([type |-> "sharpening", sharpnessValue |-> a], applySharpen(imageData, a))

CallGrayscale ==
  Return([type |-> "grayscale"], applyGrayscale(imageData))

CallThreshold ==
  \E t \in ThresholdChoices :
     Return([type |-> "threshold", thresholdValue |-> t], applyThreshold(imageData, t))

CallSobel ==
  Return([type |-> "edges"], applySobelEdgeDetection(imageData))

NextOps ==
  \/ CallContrast
  \/ CallBrightness
  \/ CallSharpen
  \/ CallGrayscale
  \/ CallThreshold
  \/ CallSobel

SpecOps == InitOps /\ [][NextOps]_vars

Returned(type) == pc = "returned" /\ params.type = type

NumPixels(img) == img.width * img.height

-----------------------------------------------------------------------------
(* C1 -- applyContrast with contrast = 100 is the identity: every byte of the
   returned buffer equals the byte of the argument. *)
C1_ContrastIdentityAt100 ==
  (Returned("contrast") /\ params.contrastValue = 100) => resultData = imageData

(* C7 -- applyThreshold writes only 0 or 255 to R, G, B, the three channels of a
   pixel are equal, and every pixel's alpha is the argument's alpha. *)
C7_ThresholdBinary ==
  Returned("threshold") =>
    /\ resultData.width = imageData.width /\ resultData.height = imageData.height
    /\ DOMAIN resultData.data = DOMAIN imageData.data
    /\ \A p \in 0..(NumPixels(imageData) - 1) :
         LET px == PixelAt(resultData.data, p)
         IN /\ px[1] \in {0, 255}
            /\ px[2] = px[1] /\ px[3] = px[1]
            /\ px[4] = imageData.data[4 * p + 3]

\* A threshold call that produced both black and white pixels and kept an alpha
\* other than 255.
C7_Witness ==
  /\ Returned("threshold")
  /\ \E p, q, r \in 0..(NumPixels(imageData) - 1) :
       /\ resultData.data[4 * p] = 0
       /\ resultData.data[4 * q] = 255
       /\ resultData.data[4 * r + 3] = 128

(* C8 -- applyGrayscale is idempotent: applying it to its own output returns
   that output byte for byte, and grayscale leaves alpha as it was. *)
C8_GrayscaleIdempotent ==
  Returned("grayscale") =>
    /\ applyGrayscale(resultData) = resultData
    /\ \A p \in 0..(NumPixels(imageData) - 1) :
         resultData.data[4 * p + 3] = imageData.data[4 * p + 3]

\* A grayscale call on an image with a coloured pixel, which the call changed.
C8_Witness ==
  /\ Returned("grayscale")
  /\ resultData # imageData
  /\ \E p \in 0..(NumPixels(imageData) - 1) :
       /\ imageData.data[4 * p] # imageData.data[4 * p + 1]
       /\ resultData.data[4 * p] = resultData.data[4 * p + 1]
       /\ resultData.data[4 * p + 3] = 128

IsBorder(img, p) ==
  LET x == p % img.width
      y == p \div img.width
  IN x = 0 \/ x = img.width - 1 \/ y = 0 \/ y = img.height - 1

ConstantColour(img) ==
  \A p \in 0..(NumPixels(img) - 1) : PixelAt(img.data, p) = PixelAt(img.data, 0)

(* C9 -- applySobelEdgeDetection returns, for every image, a buffer whose border
   pixels are (0,0,0,255) and whose pixels all have alpha 255; on a
   constant-colour image the interior magnitude is 0 as well. *)
C9_SobelBorder ==
  Returned("edges") =>
    /\ resultData.width = imageData.width /\ resultData.height = imageData.height
    /\ DOMAIN resultData.data = DOMAIN imageData.data
    /\ \A p \in 0..(NumPixels(imageData) - 1) :
         /\ resultData.data[4 * p + 3] = 255
         /\ IsBorder(imageData, p) => PixelAt(resultData.data, p) = <<0, 0, 0, 255>>
         /\ ConstantColour(imageData) => PixelAt(resultData.data, p) = <<0, 0, 0, 255>>

\* Sobel returned on a 3x3 constant-colour image whose alpha is not 255 (the
\* interior pixel's magnitude is 0), ...
C9_Witness ==
  /\ Returned("edges")
  /\ imageData.width = 3 /\ imageData.height = 3
  /\ ConstantColour(imageData)
  /\ imageData.data[3] = 128
  /\ PixelAt(resultData.data, 4) = <<0, 0, 0, 255>>

-----------------------------------------------------------------------------
(* SpecBad: one call of a basic operator on a buffer whose data.length is not
   width * height * 4 *)

\* What a call throws.
Thrown(name) == [error |-> name]

\* new ImageData(data, width, height) in the browser: the constructor throws a
\* DOMException unless data.length is 4 * width * height.
newImageData(data, width, height) ==
  IF Length(data) = 4 * width * height THEN ImageData(data, width, height)
  ELSE Thrown("DOMException")

\* The sides and lengths of the drawn buffers: with sides below 3 the loops of
\* applySharpen visit no pixel.
BadSides == {1, 2}
BadLengths(width, height) == (0..(4 * width * height + 4)) \ {4 * width * height}

\* Buffers of a wrong length filled with the bytes of one pixel, repeated.
BadImages ==
  { ImageData([i \in 0..(n - 1) |-> px[(i % 4) + 1]], d[1], d[2]) :
      px \in OpPalette,
      d \in BadSides \X BadSides,
      n \in UNION { BadLengths(e[1], e[2]) : e \in BadSides \X BadSides } }

InitBad ==
  /\ imageData \in { img \in BadImages :
                       Length(img.data) \in BadLengths(img.width, img.height) }
  /\ params = Null /\ resultData = Null
  /\ pc = "ready"
  /\ IdleApp /\ IdleLoop /\ IdleCanny /\ IdleSeg /\ IdleHeap

\* applyContrast: the loop over a copy of data, then new ImageData(...).
BadContrast ==
  \E c \in ContrastChoices :
     Return([type |-> "contrast", contrastValue |-> c],
            newImageData(applyContrast(imageData, c).data,
                         imageData.width, imageData.height))

BadBrightness ==
  \E b \in BrightnessChoices :
     Return([type |-> "brightness", brightnessValue |-> b],
            newImageData(applyBrightness(imageData, b).data,
                         imageData.width, imageData.height))

\* applySharpen: "if (amount === 0) return imageData" comes first.
BadSharpen ==
  \E a \in SharpnessChoices :
     Return([type |-> "sharpening", sharpnessValue |-> a],
            IF a = 0 THEN imageData
            ELSE newImageData(applySharpen(imageData, a).data,
                              imageData.width, imageData.height))

NextBad == BadContrast \/ BadBrightness \/ BadSharpen

SpecBad == InitBad /\ [][NextBad]_vars

(* C13 -- an operator given a buffer whose data.length differs from
   width * height * 4 fails with an error: the call throws, returns no buffer
   and leaves the argument as it was. *)
C13_MalformedBufferRejected ==
  pc = "returned" => "error" \in DOMAIN resultData

-----------------------------------------------------------------------------
(* SpecCanny: applyCannyEdgeDetection, one step per stage of the function *)

\* Largest width and height of a drawn image (the blur needs 5 to reach a pixel).
MaxCannyW == 5
MaxCannyH == 5

\* The drawn images: a dark, half-transparent grey on black where a column mask
\* meets a band of rows (bars, blocks and combs, with corners and soft edges).
CannyOn == <<40, 40, 40, 128>>
CannyOff == <<0, 0, 0, 255>>

CannyImages ==
  UNION { { MkImage(w, h, [p \in 0..(w * h - 1) |->
                             IF cm[p % w] /\ band[1] <= p \div w /\ p \div w < band[2]
                             THEN CannyOn ELSE CannyOff]) :
              cm \in [0..(w - 1) -> BOOLEAN],
              band \in { b \in (0..h) \X (0..h) : b[1] < b[2] } } :
          w \in 1..MaxCannyW, h \in 1..MaxCannyH }

\* (lowThreshold, highThreshold) pairs from the sliders' range 0..255: the
\* defaults, a lower pair, an inverted pair, and a pair with the least low
\* threshold.
CannyThresholds == { <<50, 150>>, <<30, 100>>, <<100, 30>>, <<0, 100>> }

InitCanny ==
  /\ imageData \in CannyImages
  /\ \E t \in CannyThresholds :
       params = [type |-> "canny", cannyLow |-> t[1], cannyHigh |-> t[2]]
  /\ resultData = Null
  /\ pc = "canny"
  /\ IdleCanny /\ IdleApp /\ IdleLoop /\ IdleSeg /\ IdleHeap

\* Step 1: const blurredData = applyGaussianBlur(imageData)
CannyBlur ==
  /\ pc = "canny"
  /\ blurredData' = applyGaussianBlur(imageData)
  /\ pc' = "canny_sobel"
  /\ UNCHANGED <<heapVars, imageData, params, resultData, sobelData, thresholded,
                 appVars, loopVars, segVars>>

\* Step 2: const sobelData = applySobelEdgeDetection(blurredData)
CannySobel ==
  /\ pc = "canny_sobel"
  /\ sobelData' = applySobelEdgeDetection(blurredData)
  /\ pc' = "canny_threshold"
  /\ UNCHANGED <<heapVars, imageData, params, resultData, blurredData, thresholded,
                 appVars, loopVars, segVars>>

\* "Apply double threshold": the first loop over resultData.
CannyDoubleThreshold ==
  /\ pc = "canny_threshold"
  /\ resultData' = doubleThreshold(sobelData.data, params.cannyLow, params.cannyHigh)
  /\ thresholded' = resultData'
  /\ pc' = "canny_hysteresis"
  /\ UNCHANGED <<heapVars, imageData, params, blurredData, sobelData, appVars, loopVars, segVars>>

\* "Apply hysteresis": the second loop, rewriting resultData in place, and the
\* return of new ImageData(resultData, width, height).
CannyHysteresis ==
  /\ pc = "canny_hysteresis"
  /\ resultData' = ImageData(hysteresis(resultData, imageData.width, imageData.height, 0),
                             imageData.width, imageData.height)
  /\ pc' = "returned"
  /\ UNCHANGED <<heapVars, imageData, params, blurredData, sobelData, thresholded,
                 appVars, loopVars, segVars>>

NextCanny ==
  \/ CannyBlur
  \/ CannySobel
  \/ CannyDoubleThreshold
  \/ CannyHysteresis

SpecCanny == InitCanny /\ [][NextCanny]_vars

\* The raster indices of the 8 neighbours of pixel p that lie inside the image.
Neighbours8(img, p) ==
  LET x == p % img.width
      y == p \div img.width
  IN { (y + ky) * img.width + (x + kx) :
         <<kx, ky>> \in { d \in (-1..1) \X (-1..1) :
                            /\ d # <<0, 0>>
                            /\ x + d[1] >= 0 /\ x + d[1] < img.width
                            /\ y + d[2] >= 0 /\ y + d[2] < img.height } }

(* C6 -- in applyCannyEdgeDetection every pixel the double threshold classified
   strong (255) is 255 in the output, and every pixel it classified weak (128)
   with at least one 8-connected neighbour classified strong is 255 in the
   output. *)
C6_CannyStrongKept ==
  Returned("canny") =>
    \A p \in 0..(NumPixels(imageData) - 1) :
       /\ thresholded[4 * p] = 255 => PixelAt(resultData.data, p) = <<255, 255, 255, 255>>
       /\ (/\ thresholded[4 * p] = 128
           /\ \E q \in Neighbours8(imageData, p) : thresholded[4 * q] = 255)
            => PixelAt(resultData.data, p) = <<255, 255, 255, 255>>

\* Canny returned on an image where a weak pixel whose only strong neighbours
\* are diagonal was promoted, next to a weak pixel that was demoted.
C6_Witness ==
  /\ Returned("canny")
  /\ \E p, r \in 0..(NumPixels(imageData) - 1) :
       /\ thresholded[4 * p] = 128
       /\ resultData.data[4 * p] = 255
       /\ \E q \in Neighbours8(imageData, p) : thresholded[4 * q] = 255
       /\ \A q \in Neighbours8(imageData, p) :
            thresholded[4 * q] = 255 => (q % imageData.width # p % imageData.width
                                         /\ q \div imageData.width # p \div imageData.width)
       /\ thresholded[4 * r] = 128
       /\ resultData.data[4 * r] = 0

(* C18 -- the hysteresis of applyCannyEdgeDetection does not cascade: a pixel
   the double threshold classified weak (128) is 255 in the output only if one
   of its 8 neighbours was classified strong (255) by the double threshold, and
   every other weak pixel is 0 in the output. *)
C18_HysteresisDoesNotCascade ==
  Returned("canny") =>
    \A p \in 0..(NumPixels(imageData) - 1) :
       thresholded[4 * p] = 128 =>
         resultData.data[4 * p] =
           IF \E q \in Neighbours8(imageData, p) : thresholded[4 * q] = 255
           THEN 255 ELSE 0

(* C25 -- for lowThreshold and highThreshold in 0..255, in either order, the
   image applyCannyEdgeDetection returns is binary and opaque: every pixel is
   (0,0,0,255) or (255,255,255,255), so no weak value 128 is left, also not on
   the border ring that the hysteresis loop does not visit, and every border
   pixel is (0,0,0,255). *)
C25_CannyBinaryOpaque ==
  ( /\ Returned("canny")
    /\ params.cannyLow \in 0..255 /\ params.cannyHigh \in 0..255 )
  => \A p \in 0..(NumPixels(imageData) - 1) :
        /\ PixelAt(resultData.data, p) \in { <<0, 0, 0, 255>>, <<255, 255, 255, 255>> }
        /\ IsBorder(imageData, p) => PixelAt(resultData.data, p) = <<0, 0, 0, 255>>

\* Canny returned with lowThreshold 0 on an image with interior pixels: the
\* double threshold left weak pixels, the hysteresis loop promoted one and
\* removed another, and the border pixels had magnitude 0.
C25_Witness ==
  /\ Returned("canny")
  /\ params.cannyLow = 0
  /\ \E p, r \in 0..(NumPixels(imageData) - 1) :
       /\ ~IsBorder(imageData, p) /\ ~IsBorder(imageData, r)
       /\ thresholded[4 * p] = 128 /\ resultData.data[4 * p] = 255
       /\ thresholded[4 * r] = 128 /\ resultData.data[4 * r] = 0
  /\ \E b \in 0..(NumPixels(imageData) - 1) :
       IsBorder(imageData, b) /\ sobelData.data[4 * b] = params.cannyLow

-----------------------------------------------------------------------------
(* SpecSeg: applySegmentation, one action per phase of the function *)

MaxSegPixels == 5

\* Neighbouring colours are within 10 of each other, SegA and SegD are not.
SegA == <<100, 150, 200, 255>>
SegB == <<104, 154, 206, 128>>
SegD == <<108, 158, 212, 255>>

\* The square images of side BlockSide split into two solid blocks, side by side
\* or one above the other.
BlockSide == 4

BlockImages ==
  { MkImage(BlockSide, BlockSide,
            [p \in 0..(BlockSide * BlockSide - 1) |->
               IF (IF o = "rows" THEN p \div BlockSide ELSE p % BlockSide) < BlockSide \div 2
               THEN c[1] ELSE c[2]]) :
      o \in {"rows", "columns"},
      c \in { c \in {SegA, SegB, SegD} \X {SegA, SegB, SegD} : c[1] # c[2] } }

\* The images of two rows whose second row is ChainRow: among them are the
\* smallest images over these colours on which the merge pass leaves a chain
\* of two links.
ChainRow == <<SegB, SegB, SegD, SegB>>

ChainImages ==
  { MkImage(Len(ChainRow), 2,
            [p \in 0..(2 * Len(ChainRow) - 1) |->
               IF p < Len(ChainRow) THEN top[p + 1] ELSE ChainRow[p - Len(ChainRow) + 1]]) :
      top \in [1..Len(ChainRow) -> {SegA, SegB, SegD}] }

\* The images of three rows whose last two rows are CycleRows: among them are
\* the smallest images over these colours on which the merge pass makes two
\* segments each other's target.
CycleRows == <<SegD, SegD, SegB, SegA, SegB, SegA, SegA, SegA>>

CycleImages ==
  { MkImage(Len(ChainRow), 3,
            [p \in 0..(3 * Len(ChainRow) - 1) |->
               IF p < Len(ChainRow) THEN top[p + 1] ELSE CycleRows[p - Len(ChainRow) + 1]]) :
      top \in [1..Len(ChainRow) -> {SegA, SegB, SegD}] }

SegImages ==
  BlockImages \cup ChainImages \cup CycleImages \cup
  UNION { ImagesOver(d[1], d[2], {SegA, SegB, SegD}) : d \in Dims(MaxSegPixels) }

\* <<tolerance, minSize, colorScheme>>; "plasma" is not a scheme of the switch.
SegParamChoices ==
  { <<10, 1, "rainbow">>, <<10, 3, "rainbow">>, <<1, 3, "pastel">>,
    <<10, 3, "grayscale">>, <<1, 2, "highContrast">>,
    <<10, 3, "preserveBrightness">>, <<10, 100, "plasma">>, <<50, 10, "pastel">>,
    <<1000, 2, "highContrast">>, <<1, 6, "rainbow">> }

InitSeg ==
  /\ imageData \in SegImages
  /\ \E c \in SegParamChoices :
       params = [type |-> "segmentation", segmentTolerance |-> c[1],
                 segmentMinSize |-> c[2], colorScheme |-> c[3]]
  /\ resultData = imageData.data
  /\ segmentMap = [p \in 0..(imageData.width * imageData.height - 1) |-> -1]
  /\ segmentSizes = EmptyMap
  /\ segmentColors = EmptyMap
  /\ currentSegment = 0
  /\ mergeMap = Null /\ preMergeMap = Null
  /\ segmentList = Null /\ colors = Null
  /\ pc = "seg_grow"
  /\ IdleApp /\ IdleLoop /\ IdleCanny /\ IdleHeap

\* One iteration of "Process all pixels" that finds an unassigned pixel: the
\* iterations before it only skip assigned pixels.
SegFloodFill ==
  /\ pc = "seg_grow"
  /\ Unassigned(segmentMap) # {}
  /\ LET index == FirstUnassigned(segmentMap)
         st == floodFill(segmentMap, imageData.data, imageData.width, imageData.height,
                         index % imageData.width, index \div imageData.width,
                         params.segmentTolerance, currentSegment)
     IN /\ segmentMap' = st.segmentMap
        /\ segmentSizes' = segmentSizes @@ (currentSegment :> st.size)
        /\ segmentColors' = segmentColors @@ (currentSegment :> averageColor(st.color))
  /\ currentSegment' = currentSegment + 1
  /\ UNCHANGED <<heapVars, appVars, loopVars, cannyVars, imageData, params, resultData, pc,
                 mergeMap, preMergeMap, segmentList, colors>>

\* The scan has ended: mergeMap is initialised and the merge pass runs.
SegMerge ==
  /\ pc = "seg_grow"
  /\ Unassigned(segmentMap) = {}
  /\ mergeMap' = mergePass([i \in 0..(currentSegment - 1) |-> i], segmentMap,
                           segmentSizes, segmentColors, imageData.width,
                           imageData.height, params.segmentMinSize, currentSegment, 0)
  /\ preMergeMap' = mergeMap'
  /\ pc' = "seg_flatten"
  /\ UNCHANGED <<heapVars, appVars, loopVars, cannyVars, imageData, params, resultData,
                 segmentMap, segmentSizes, segmentColors, currentSegment,
                 segmentList, colors>>

\* The flattening loop; when one of its while loops never ends the function
\* stays in it.
SegFlatten ==
  /\ pc = "seg_flatten"
  /\ LET flat == flatten(mergeMap, currentSegment, 0)
     IN IF flat.done
        THEN mergeMap' = flat.mergeMap /\ pc' = "seg_recolor"
        ELSE UNCHANGED <<mergeMap, pc>>
  /\ UNCHANGED <<heapVars, appVars, loopVars, cannyVars, imageData, params, resultData,
                 segmentMap, segmentSizes, segmentColors, currentSegment,
                 preMergeMap, segmentList, colors>>

\* uniqueSegments, the colours and the painted copy that is returned.
SegRecolor ==
  /\ pc = "seg_recolor"
  /\ segmentList' = uniqueSegments(mergeMap, currentSegment, 0, <<>>)
  /\ \E hues \in HuesDrawn(params.colorScheme, Len(segmentList')) :
       colors' = assignColorsToSegments(segmentList', segmentColors,
                                        params.colorScheme, hues)
  /\ resultData' = ImageData(paint(resultData, segmentMap, mergeMap, colors'),
                             imageData.width, imageData.height)
  /\ pc' = "returned"
  /\ UNCHANGED <<heapVars, appVars, loopVars, cannyVars, imageData, params,
                 segmentMap, segmentSizes, segmentColors, currentSegment,
                 mergeMap, preMergeMap>>

NextSeg == SegFloodFill \/ SegMerge \/ SegFlatten \/ SegRecolor

SpecSeg == InitSeg /\ [][NextSeg]_vars

\* The sum of f over the finite set S of its arguments.
RECURSIVE SumOver(_, _)
SumOver(f, S) ==
  IF S = {} THEN 0
  ELSE LET x == CHOOSE y \in S : TRUE IN f[x] + SumOver(f, S \ {x})

\* The number of pixels whose segment ends in representative r.
RepPixels(r) == { p \in DOMAIN segmentMap : segmentMap[p] # -1 /\ mergeMap[segmentMap[p]] = r }
RepSize(r) == SumOver(segmentSizes, { i \in DOMAIN mergeMap : mergeMap[i] = r })

(* C5 -- when applySegmentation has returned, every pixel has a segment id that
   the merge map sends to exactly one entry of segmentList, a representative
   that maps to itself, and the pixel counts of the representatives (and of the
   grown segments) sum to width * height. *)
C5_SegmentationPartition ==
  Returned("segmentation") =>
    /\ \A p \in DOMAIN segmentMap :
         /\ segmentMap[p] \in 0..(currentSegment - 1)
         /\ mergeMap[mergeMap[segmentMap[p]]] = mergeMap[segmentMap[p]]
         /\ Cardinality({ k \in 1..Len(segmentList) :
                            segmentList[k] = mergeMap[segmentMap[p]] }) = 1
    /\ \A k \in 1..Len(segmentList) :
         RepSize(segmentList[k]) = Cardinality(RepPixels(segmentList[k]))
    /\ SumOver([k \in 1..Len(segmentList) |-> RepSize(segmentList[k])],
               1..Len(segmentList)) = NumPixels(imageData)
    /\ SumOver(segmentSizes, DOMAIN segmentSizes) = NumPixels(imageData)

\* A return where a merge happened and several representatives are left.
C5_Witness ==
  /\ Returned("segmentation")
  /\ Len(segmentList) >= 2
  /\ currentSegment > Len(segmentList)
  /\ \E i \in DOMAIN mergeMap : mergeMap[i] # i /\ segmentSizes[i] >= 2

\* Pixels p and q of an image of the given width share an edge.
Adjacent4(p, q, width) ==
  \/ p \div width = q \div width /\ (p = q + 1 \/ q = p + 1)
  \/ p = q + width \/ q = p + width

\* The segments other than i with a pixel that shares an edge with a pixel of i.
AdjacentSegs(i) ==
  { segmentMap[q] : q \in { q \in DOMAIN segmentMap :
                              /\ segmentMap[q] # i
                              /\ \E p \in DOMAIN segmentMap :
                                    segmentMap[p] = i /\ Adjacent4(p, q, imageData.width) } }

\* The squared distance of the mean colours of segments i and j.
MeanSqDiff(i, j) ==
  sqDiff(segmentColors[i].r, segmentColors[i].g, segmentColors[i].b,
         segmentColors[j].r, segmentColors[j].g, segmentColors[j].b)

\* Segment i is smaller than minSize and touches another segment.
SmallWithNeighbour(i) ==
  segmentSizes[i] < params.segmentMinSize /\ AdjacentSegs(i) # {}

(* C17 -- after the merge pass, before the chains are resolved, every segment
   smaller than minSize that touches another segment has as merge target a
   segment that touches it and whose mean colour is nearest to its own among
   the segments that touch it; a segment that touches no other segment keeps
   itself as target. *)
C17_MergeTargetNearestNeighbour ==
  pc = "seg_flatten" =>
    \A i \in 0..(currentSegment - 1) :
       /\ SmallWithNeighbour(i) =>
            /\ mergeMap[i] \in AdjacentSegs(i)
            /\ \A j \in AdjacentSegs(i) : MeanSqDiff(i, mergeMap[i]) <= MeanSqDiff(i, j)
       /\ AdjacentSegs(i) = {} => mergeMap[i] = i

\* The merge target segment j has when the merge pass visits segment i: the
\* pass goes through the segments in id order and sets each target once.
TargetWhenVisited(i, j) == IF j < i THEN mergeMap[j] ELSE j

\* The merge targets, at that moment, of the segments that touch segment i.
Candidates(i) == { TargetWhenVisited(i, j) : j \in AdjacentSegs(i) }

(* C17 (amended) -- after the merge pass, before the chains are resolved, every
   segment smaller than minSize that touches another segment has as merge
   target one of the merge targets that the segments touching it have when the
   pass visits it, one whose mean colour is nearest to its own among them (it
   may be the segment itself, or a segment that does not touch it); every
   other segment keeps itself as target. *)
C17_MergeTargetNearestCandidate ==
  pc = "seg_flatten" =>
    \A i \in 0..(currentSegment - 1) :
       IF SmallWithNeighbour(i)
       THEN /\ mergeMap[i] \in Candidates(i)
            /\ \A c \in Candidates(i) : MeanSqDiff(i, mergeMap[i]) <= MeanSqDiff(i, c)
       ELSE mergeMap[i] = i

\* The merge pass has ended with a small segment that kept itself as target
\* although it touches a segment, one whose target does not touch it, and one
\* whose target is a segment that touches it.
C17_Witness ==
  /\ pc = "seg_flatten"
  /\ \E i, j, k \in 0..(currentSegment - 1) :
       /\ SmallWithNeighbour(i) /\ mergeMap[i] = i
       /\ SmallWithNeighbour(j) /\ mergeMap[j] # j /\ mergeMap[j] \notin AdjacentSegs(j)
       /\ SmallWithNeighbour(k) /\ mergeMap[k] \in AdjacentSegs(k)

\* The pixels of S reachable from R through edge-sharing pixels of S.
RECURSIVE Grow4(_, _, _)
Grow4(R, S, width) ==
  LET R2 == R \cup { q \in S : \E p \in R : Adjacent4(p, q, width) }
  IN IF R2 = R THEN R ELSE Grow4(R2, S, width)

Connected4(S, width) == S # {} /\ Grow4({CHOOSE p \in S : TRUE}, S, width) = S

RGBAt(img, p) == <<img.data[4 * p], img.data[4 * p + 1], img.data[4 * p + 2]>>

\* The pixels with the colour of pixel 0, and the others.
FirstBlock(img) == { p \in 0..(NumPixels(img) - 1) : RGBAt(img, p) = RGBAt(img, 0) }
SecondBlock(img) == (0..(NumPixels(img) - 1)) \ FirstBlock(img)

\* img is two solid 4-connected blocks further apart in RGB than tolerance.
TwoBlocks(img, tolerance) ==
  LET F == FirstBlock(img)
      S == SecondBlock(img)
  IN /\ S # {}
     /\ \A p, q \in S : RGBAt(img, p) = RGBAt(img, q)
     /\ Connected4(F, img.width) /\ Connected4(S, img.width)
     /\ LET a == RGBAt(img, 0)
            b == RGBAt(img, CHOOSE p \in S : TRUE)
        IN sqDiff(a[1], a[2], a[3], b[1], b[2], b[3]) > tolerance * tolerance

\* Bytes 0..2 of pixel p of the returned image are rgb and its alpha is kept.
PaintedAs(p, rgb) ==
  /\ RGBAt(resultData, p) = rgb
  /\ resultData.data[4 * p + 3] = imageData.data[4 * p + 3]

(* C10 -- on an image of two solid 4-connected blocks whose colours are further
   apart than the tolerance, applySegmentation with minSize 1 and scheme rainbow
   returns with exactly two representatives, one per block and with the block's
   pixel count; the block of pixel 0 is painted (230, 46, 46), which is
   hsv(0, 0.8, 0.9), and the other block (46, 230, 230), hsv(180, 0.8, 0.9). *)
C10_TwoBlocksRainbow ==
  ( /\ Returned("segmentation")
    /\ params.segmentMinSize = 1 /\ params.colorScheme = "rainbow"
    /\ TwoBlocks(imageData, params.segmentTolerance) )
  => /\ Len(segmentList) = 2
     /\ RepPixels(segmentList[1]) = FirstBlock(imageData)
     /\ RepPixels(segmentList[2]) = SecondBlock(imageData)
     /\ RepSize(segmentList[1]) = Cardinality(FirstBlock(imageData))
     /\ RepSize(segmentList[2]) = Cardinality(SecondBlock(imageData))
     /\ \A p \in FirstBlock(imageData) : PaintedAs(p, <<230, 46, 46>>)
     /\ \A p \in SecondBlock(imageData) : PaintedAs(p, <<46, 230, 230>>)

\* The square image of two half blocks has been segmented: with BlockSide = 4
\* these are the 4x4 images and their blocks of 8 pixels.
C10_Witness ==
  /\ Returned("segmentation")
  /\ params.segmentMinSize = 1 /\ params.colorScheme = "rainbow"
  /\ TwoBlocks(imageData, params.segmentTolerance)
  /\ imageData.width = BlockSide /\ imageData.height = BlockSide
  /\ RepSize(segmentList[1]) = BlockSide * (BlockSide \div 2)
  /\ RepSize(segmentList[2]) = BlockSide * (BlockSide - BlockSide \div 2)

\* The pixels of grown segment s and the first of them in raster order.
SegPixels(s) == { p \in DOMAIN segmentMap : segmentMap[p] = s }
SeedOf(s) == CHOOSE p \in SegPixels(s) : \A q \in SegPixels(s) : p <= q

\* The Euclidean RGB distance of pixels p and q of the input is <= tolerance.
WithinTolerance(p, q) ==
  LET a == RGBAt(imageData, p)
      b == RGBAt(imageData, q)
  IN sqDiff(a[1], a[2], a[3], b[1], b[2], b[3])
       <= params.segmentTolerance * params.segmentTolerance

\* The segments grown so far have the ids 0, 1, 2, ... in the raster order of
\* their seeds, every pixel is within tolerance of the seed of its segment, and
\* every segment is 4-connected.
GrownSoFar ==
  /\ { segmentMap[p] : p \in DOMAIN segmentMap } \ {-1} = 0..(currentSegment - 1)
  /\ \A s, t \in 0..(currentSegment - 1) : s < t => SeedOf(s) < SeedOf(t)
  /\ \A p \in DOMAIN segmentMap :
       segmentMap[p] # -1 => WithinTolerance(p, SeedOf(segmentMap[p]))
  /\ \A s \in 0..(currentSegment - 1) : Connected4(SegPixels(s), imageData.width)

\* A step that grows a segment gives the next id to exactly the pixels that can
\* be reached from the first unassigned pixel through edge-sharing pixels that
\* are unassigned and within tolerance of that pixel, and to no other pixel.
GrowsFromSeed ==
  currentSegment' = currentSegment + 1 =>
    LET free == { p \in DOMAIN segmentMap : segmentMap[p] = -1 }
        seed == CHOOSE p \in free : \A q \in free : p <= q
    IN /\ free # {}
       /\ { p \in DOMAIN segmentMap : segmentMap'[p] = currentSegment }
            = Grow4({seed}, { q \in free : WithinTolerance(q, seed) }, imageData.width)
       /\ \A p \in DOMAIN segmentMap :
            segmentMap'[p] # currentSegment => segmentMap'[p] = segmentMap[p]

(* C19 -- during growth the segments get the dense ids 0, 1, 2, ... in the
   raster order of their seeds; a pixel joins the segment being grown iff it is
   unassigned, shares an edge with a pixel already in the segment and is within
   tolerance (Euclidean RGB distance) of the seed's original colour, never of a
   running mean; so every pixel of a segment is within tolerance of the
   segment's seed colour and every segment is 4-connected. *)
C19_GrowthBySeedColour == [] GrownSoFar /\ [][GrowsFromSeed]_vars

\* Growth has ended with a segment of several pixels that stopped at a pixel
\* within tolerance of one of its pixels but not of its seed, and that pixel
\* seeds a later segment whose tolerance covers a pixel of the earlier one.
C19_Witness ==
  /\ pc = "seg_grow" /\ currentSegment >= 2
  /\ \A p \in DOMAIN segmentMap : segmentMap[p] # -1
  /\ \E p, q \in DOMAIN segmentMap :
       /\ Adjacent4(p, q, imageData.width)
       /\ segmentMap[p] < segmentMap[q]
       /\ Cardinality(SegPixels(segmentMap[p])) >= 2
       /\ WithinTolerance(q, p)
       /\ ~WithinTolerance(q, SeedOf(segmentMap[p]))
       /\ q = SeedOf(segmentMap[q])

\* The segments reached from those of S by following the links the merge pass
\* left, any number of times.
RECURSIVE LinkedFrom(_)
LinkedFrom(S) ==
  LET T == S \cup { preMergeMap[j] : j \in S }
  IN IF T = S THEN S ELSE LinkedFrom(T)

(* C20 -- after the chain-resolution loop the merge map is a fixed point: for
   every segment id i, mergeMap[mergeMap[i]] = mergeMap[i], and mergeMap[i] is
   the self-mapped segment reached by following the links of the merge pass
   from i. *)
C20_ChainsResolved ==
  pc \in {"seg_recolor", "returned"} =>
    \A i \in 0..(currentSegment - 1) :
       /\ mergeMap[mergeMap[i]] = mergeMap[i]
       /\ mergeMap[i] \in LinkedFrom({i})
       /\ preMergeMap[mergeMap[i]] = mergeMap[i]

\* The loop has resolved a chain of two links: the merge pass sent segment i
\* to a segment that it later sent on to a third one.
C20_Witness ==
  /\ pc = "seg_recolor"
  /\ \E i \in 0..(currentSegment - 1) :
       /\ preMergeMap[i] # i
       /\ preMergeMap[preMergeMap[i]] # preMergeMap[i]
       /\ mergeMap[i] = preMergeMap[preMergeMap[i]]
       /\ mergeMap[i] # preMergeMap[i]

\* The tolerance is at least the distance of any two pixels of the input.
ToleranceCoversImage ==
  \A p, q \in 0..(NumPixels(imageData) - 1) : WithinTolerance(p, q)

(* C21 -- when the tolerance is at least the largest RGB distance between two
   pixels of the image, growth ends with exactly one segment that holds all
   width * height pixels, whatever their colours, and the returned image has
   one RGB colour everywhere. *)
C21_ToleranceCoversAll ==
  ToleranceCoversImage =>
    /\ (pc # "seg_grow" \/ Unassigned(segmentMap) = {}) =>
          /\ currentSegment = 1
          /\ \A p \in DOMAIN segmentMap : segmentMap[p] = 0
          /\ segmentSizes[0] = NumPixels(imageData)
    /\ Returned("segmentation") =>
          \A p \in 0..(NumPixels(imageData) - 1) : RGBAt(resultData, p) = RGBAt(resultData, 0)

\* applySegmentation has returned on an image of at least four pixels of three
\* different colours, with tolerance 1000.
C21_Witness ==
  /\ Returned("segmentation")
  /\ params.segmentTolerance = 1000
  /\ NumPixels(imageData) >= 4
  /\ Cardinality({ RGBAt(imageData, p) : p \in 0..(NumPixels(imageData) - 1) }) = 3
  /\ currentSegment = 1

(* C22 -- applySegmentation terminates for every image, tolerance and minSize:
   the links the merge pass leaves have no cycle of two or more segments (from
   every segment they lead to a segment that is its own target), so the loop
   that follows them from each segment ends. *)
C22_MergePassAcyclic ==
  pc = "seg_flatten" =>
    /\ \A i \in 0..(currentSegment - 1) :
         \E r \in LinkedFrom({i}) : preMergeMap[r] = r
    /\ flatten(mergeMap, currentSegment, 0).done

(* C23 -- grown segments are maximal with respect to earlier seeds: after
   growth, whenever pixels p and q share an edge and p's segment has a smaller
   id than q's, the colour of q is further than tolerance (Euclidean RGB
   distance) from the seed colour of p's segment. *)
C23_MaximalForEarlierSeeds ==
  (pc # "seg_grow" \/ Unassigned(segmentMap) = {}) =>
    \A p, q \in DOMAIN segmentMap :
       ( Adjacent4(p, q, imageData.width) /\ segmentMap[p] < segmentMap[q] )
         => ~WithinTolerance(q, SeedOf(segmentMap[p]))

\* Growth has ended with three or more segments, and a pixel of an earlier
\* segment is within tolerance of the seed of a later segment that it touches:
\* the later seed came too late to take it.
C23_Witness ==
  /\ pc = "seg_grow" /\ Unassigned(segmentMap) = {}
  /\ currentSegment >= 3
  /\ \E p, q \in DOMAIN segmentMap :
       /\ Adjacent4(p, q, imageData.width)
       /\ segmentMap[p] < segmentMap[q]
       /\ p # SeedOf(segmentMap[p])
       /\ WithinTolerance(p, SeedOf(segmentMap[q]))

(* C24 -- a segment with at least minSize pixels is never redirected: its merge
   target is its own id after the merge pass and after chain resolution, and
   it is one of the representatives in segmentList; with minSize <= 1 the merge
   pass changes nothing and the representatives are exactly the grown
   segments. *)
C24_LargeSegmentsKept ==
  /\ pc \in {"seg_flatten", "seg_recolor", "returned"} =>
       /\ \A i \in 0..(currentSegment - 1) :
            segmentSizes[i] >= params.segmentMinSize => mergeMap[i] = i
       /\ params.segmentMinSize <= 1 => mergeMap = [i \in 0..(currentSegment - 1) |-> i]
  /\ Returned("segmentation") =>
       /\ \A i \in 0..(currentSegment - 1) :
            segmentSizes[i] >= params.segmentMinSize =>
              \E k \in 1..Len(segmentList) : segmentList[k] = i
       /\ params.segmentMinSize <= 1 =>
            segmentList = [k \in 1..currentSegment |-> k - 1]

\* applySegmentation has returned; the merge pass redirected a segment of fewer
\* than minSize pixels to a segment of at least minSize pixels that touches
\* it, and another representative is left.
C24_Witness ==
  /\ Returned("segmentation")
  /\ \E i, j \in 0..(currentSegment - 1) :
       /\ segmentSizes[i] >= params.segmentMinSize
       /\ segmentSizes[j] < params.segmentMinSize
       /\ i \in AdjacentSegs(j)
       /\ preMergeMap[j] = i
       /\ \E k \in 0..(currentSegment - 1) : k # i /\ mergeMap[k] = k

-----------------------------------------------------------------------------
(* applyAllTransformations, one action per step of the function *)

\* for (const transform of activeTransformations): the transform of iteration k
\* (0-based).
stageAtMutReversed(list, k) == list[Len(list) - k]
stageAt(list, k) == list[k + 1]

\* The original is drawn on the canvas and currentImageData read back from it.
BeginApplyAllMutFromDisplayed ==
  /\ currentImageData' = IF processedImage # Null THEN processedImage ELSE originalImage
  /\ stageIdx' = 0
  /\ pc' = "apply"
BeginApplyAll ==
  /\ currentImageData' = originalImage
  /\ stageIdx' = 0
  /\ pc' = "apply"

\* One iteration of the loop.  A call that never returns leaves the loop where
\* it is.
ApplyStage ==
  /\ pc = "apply"
  /\ stageIdx < Len(activeTransformations)
  /\ LET transform == stageAt(activeTransformations, stageIdx)
     IN \E hues \in HuesFor(currentImageData, transform) :
          LET result == applyTransformation(currentImageData, transform, hues)
          IN IF result = Null
             THEN UNCHANGED <<currentImageData, stageIdx>>
             ELSE currentImageData' = result /\ stageIdx' = stageIdx + 1
  /\ UNCHANGED <<heapVars, appVars, callVars, pc, cannyVars, segVars>>

\* "Display the final result": putImageData and setProcessedImage.
FinishApplyAll ==
  /\ pc = "apply"
  /\ stageIdx = Len(activeTransformations)
  /\ processedImage' = currentImageData
  /\ currentImageData' = Null
  /\ stageIdx' = 0
  /\ pc' = "idle"
  /\ UNCHANGED <<heapVars, originalImage, activeTransformations, currentTransform, effectQueue,
                 callVars, cannyVars, segVars>>

-----------------------------------------------------------------------------
(* SpecPipe: applyAllTransformations called, again and again, on a drawn image
   and a drawn list of transforms *)

MaxStages == 2

PipeGrey == <<100, 100, 100, 255>>
PipeRed == <<200, 30, 60, 128>>

PipeImages ==
  { MkImage(3, 3, [p \in 0..8 |-> IF p \in {0, 1, 3, 4} THEN PipeRed ELSE PipeGrey]),
    MkImage(2, 2, [p \in 0..3 |-> IF p = 3 THEN PipeGrey ELSE PipeRed]),
    MkImage(1, 2, [p \in 0..1 |-> IF p = 0 THEN PipeGrey ELSE PipeRed]) }

NoChange == [f \in {} |-> 0]

\* "invert" is not a case of applyTransformation's switch.
PipeTransforms ==
  { Transform("contrast", [contrastValue |-> 50]),
    Transform("brightness", [brightnessValue |-> 150]),
    Transform("sharpening", [sharpnessValue |-> 5]),
    Transform("threshold", NoChange),
    Transform("grayscale", NoChange),
    Transform("edges", NoChange),
    Transform("canny", NoChange),
    Transform("invert", NoChange) }
  \cup { Transform("segmentation",
                   [segmentTolerance |-> 10, segmentMinSize |-> 1, colorScheme |-> c]) :
           c \in {"rainbow", "pastel", "grayscale", "highContrast", "preserveBrightness"} }

RECURSIVE SeqsUpTo(_, _)
SeqsUpTo(S, n) ==
  IF n = 0 THEN {<<>>}
  ELSE LET shorter == SeqsUpTo(S, n - 1)
       IN shorter \cup { Append(q, x) : q \in shorter, x \in S }

InitPipe ==
  /\ originalImage \in PipeImages
  /\ activeTransformations \in SeqsUpTo(PipeTransforms, MaxStages)
  /\ processedImage = Null
  /\ currentTransform = Null
  /\ effectQueue = <<>>
  /\ pc = "idle"
  /\ IdleLoop /\ IdleCall /\ IdleCanny /\ IdleSeg /\ IdleHeap

CallApplyAll ==
  /\ pc = "idle"
  /\ BeginApplyAll
  /\ UNCHANGED <<heapVars, appVars, callVars, cannyVars, segVars>>

NextPipe == CallApplyAll \/ ApplyStage \/ FinishApplyAll

SpecPipe == InitPipe /\ [][NextPipe]_vars

\* The left-to-right fold of the transforms of list over img, for lists whose
\* transforms draw no random hue.
RECURSIVE Fold(_, _)
Fold(img, list) ==
  IF list = <<>> THEN img
  ELSE Fold(applyTransformation(img, Head(list), <<>>), Tail(list))

\* No transform of the list is a segmentation with scheme preserveBrightness.
NoRandomHue(list) ==
  \A k \in 1..Len(list) :
     ~(list[k].type = "segmentation" /\ list[k].params.colorScheme = "preserveBrightness")

\* A run of applyAllTransformations ends in this step.
RunEnds == pc = "apply" /\ pc' = "idle"

(* C3 -- two runs of applyAllTransformations on the same original image and the
   same list of transforms, whatever their kinds and params, display the same
   bytes: a run that ends when a result is already displayed leaves
   processedImage as it is. *)
C3_RecomputeDeterministic ==
  [][(RunEnds /\ processedImage # Null) => processedImage' = processedImage]_vars

(* C3 (amended) -- two runs of applyAllTransformations on the same original
   image and the same list of transforms display the same bytes when no
   transform of the list is a segmentation with scheme preserveBrightness. *)
C3_DeterministicWithoutRandomHue ==
  [][(RunEnds /\ processedImage # Null /\ NoRandomHue(activeTransformations))
       => processedImage' = processedImage]_vars

\* A second run is about to end with the bytes the first displayed, on a list
\* of two transforms with a segmentation whose scheme is not preserveBrightness.
C3_Witness ==
  /\ pc = "apply" /\ stageIdx = Len(activeTransformations)
  /\ processedImage # Null
  /\ currentImageData = processedImage
  /\ processedImage # originalImage
  /\ Len(activeTransformations) = 2
  /\ NoRandomHue(activeTransformations)
  /\ \E k \in 1..2 : activeTransformations[k].type = "segmentation"

\* The types the switch of applyTransformation has a case for.
RecognisedTypes ==
  {"contrast", "brightness", "sharpening", "threshold", "grayscale", "edges",
   "canny", "segmentation"}

KnownStage(transform) == transform.type \in RecognisedTypes

(* C4 -- a transform whose type applyTransformation does not recognise leaves
   the loop's buffer as it is and lets the loop go on to the next transform, and
   the run displays what the recognised transforms of the list alone give. *)
C4_UnknownKindPassthrough ==
  [][ /\ ( /\ pc = "apply" /\ stageIdx < Len(activeTransformations)
           /\ ~KnownStage(activeTransformations[stageIdx + 1]) )
         => ( /\ currentImageData' = currentImageData
              /\ stageIdx' = stageIdx + 1
              /\ pc' = "apply" )
      /\ (RunEnds /\ NoRandomHue(activeTransformations))
         => processedImage' = Fold(originalImage,
                                   SelectSeq(activeTransformations, KnownStage))
    ]_vars

\* The loop has passed an unrecognised transform and then applied a recognised
\* one that changed the buffer.
C4_Witness ==
  /\ pc = "apply" /\ stageIdx = 2
  /\ ~KnownStage(activeTransformations[1])
  /\ KnownStage(activeTransformations[2])
  /\ currentImageData # originalImage

\* img has the sides of ref and four bytes, indexed from 0, for each pixel.
SameShape(img, ref) ==
  /\ img.width = ref.width /\ img.height = ref.height
  /\ DOMAIN img.data = 0..(img.width * img.height * 4 - 1)

(* C12 -- every operator returns a buffer with its argument's width and height
   and width * height * 4 bytes, and so does every run of transforms: the
   loop's buffer after any number of stages, and the displayed result, have the
   sides of the original image and four bytes per pixel. *)
C12_ShapePreserved ==
  /\ pc = "apply" => SameShape(currentImageData, originalImage)
  /\ processedImage # Null => SameShape(processedImage, originalImage)

\* Two stages that changed the bytes have run on the image that is not square.
C12_Witness ==
  /\ pc = "apply" /\ stageIdx = 2
  /\ originalImage.width # originalImage.height
  /\ KnownStage(activeTransformations[1]) /\ KnownStage(activeTransformations[2])
  /\ activeTransformations[1].type # activeTransformations[2].type
  /\ currentImageData.data # originalImage.data
  /\ Length(currentImageData.data) = 8

-----------------------------------------------------------------------------
(* SpecApp: the App component, its handlers and its effect *)

\* Decoded pictures are opaque here: what a canvas gives back for a picture with
\* transparency is the browser's business.
AppImages ==
  { MkImage(3, 3, [p \in 0..8 |-> IF p \in {0, 1, 3, 4} THEN <<200, 30, 60, 255>>
                                   ELSE <<100, 100, 100, 255>>]),
    MkImage(1, 2, [p \in 0..1 |-> IF p = 0 THEN <<100, 100, 100, 255>>
                                   ELSE <<200, 30, 60, 255>>]) }

\* The options picked in the select, and the sliders moved, in the model.
TypeChoices == {"contrast", "grayscale", "threshold", "edges"}
ParamUpdates == { <<"contrastValue", 50>>, <<"thresholdValue", 90>> }

\* The dependencies [originalImage, activeTransformations] of a committed render
\* whose effect is due.
Deps(image, list) == [originalImage |-> image, activeTransformations |-> list]

InitApp ==
  /\ originalImage = Null
  /\ processedImage = Null
  /\ activeTransformations = <<>>
  /\ currentTransform = [type |-> "contrast", params |-> DefaultParams]
  /\ effectQueue = << Deps(Null, <<>>) >>       \* the effect of the first render
  /\ pc = "idle"
  /\ IdleLoop /\ IdleCall /\ IdleCanny /\ IdleSeg /\ IdleHeap

\* An event handler runs when no function is running and the effect of the
\* last commit has run: React flushes it before the next render.
HandlerReady == pc = "idle" /\ effectQueue = <<>>

\* img.onload of handleImageUpload
handleImageUpload ==
  /\ HandlerReady
  /\ \E img \in AppImages :
       /\ originalImage' = img
       /\ activeTransformations' = <<>>
       /\ effectQueue' = << Deps(img, <<>>) >>
  /\ UNCHANGED <<heapVars, processedImage, currentTransform, loopVars, callVars, pc,
                 cannyVars, segVars>>

\* onChange of the select: setCurrentTransform({...currentTransform, type})
selectType ==
  /\ HandlerReady
  /\ \E type \in TypeChoices : currentTransform' = [currentTransform EXCEPT !.type = type]
  /\ UNCHANGED <<heapVars, originalImage, processedImage, activeTransformations, effectQueue,
                 loopVars, callVars, pc, cannyVars, segVars>>

updateCurrentTransformParam ==
  /\ HandlerReady
  /\ \E u \in ParamUpdates :
       currentTransform' = [currentTransform EXCEPT !.params[u[1]] = u[2]]
  /\ UNCHANGED <<heapVars, originalImage, processedImage, activeTransformations, effectQueue,
                 loopVars, callVars, pc, cannyVars, segVars>>

\* The button is disabled without an image.
addCurrentTransform ==
  /\ HandlerReady
  /\ originalImage # Null
  /\ Len(activeTransformations) < MaxStages
  /\ activeTransformations' = Append(activeTransformations, currentTransform)
  /\ effectQueue' = << Deps(originalImage, activeTransformations') >>
  /\ UNCHANGED <<heapVars, originalImage, processedImage, currentTransform, loopVars, callVars,
                 pc, cannyVars, segVars>>

\* removeTransform(index) for an entry of the displayed list (index is 0-based)
removeTransform ==
  /\ HandlerReady
  /\ \E index \in 0..(Len(activeTransformations) - 1) :
       activeTransformations' =
         [k \in 1..(Len(activeTransformations) - 1) |->
            IF k - 1 < index THEN activeTransformations[k] ELSE activeTransformations[k + 1]]
  /\ effectQueue' = << Deps(originalImage, activeTransformations') >>
  /\ UNCHANGED <<heapVars, originalImage, processedImage, currentTransform, loopVars, callVars,
                 pc, cannyVars, segVars>>

\* resetImage with an image; without one it changes nothing.
resetImage ==
  /\ HandlerReady
  /\ originalImage # Null
  /\ activeTransformations' = <<>>
  /\ effectQueue' = << Deps(originalImage, <<>>) >>
  /\ UNCHANGED <<heapVars, originalImage, processedImage, currentTransform, loopVars, callVars,
                 pc, cannyVars, segVars>>

\* The effect: applyAllTransformations is called when there is an image (the
\* two canvases are always mounted).
RunEffect ==
  /\ pc = "idle"
  /\ effectQueue # <<>>
  /\ effectQueue' = Tail(effectQueue)
  /\ IF originalImage # Null
     THEN BeginApplyAll
     ELSE UNCHANGED <<loopVars, pc>>
  /\ UNCHANGED <<heapVars, originalImage, processedImage, activeTransformations, currentTransform,
                 callVars, cannyVars, segVars>>

NextApp ==
  \/ handleImageUpload \/ selectType \/ updateCurrentTransformParam
  \/ addCurrentTransform \/ removeTransform \/ resetImage
  \/ RunEffect \/ ApplyStage \/ FinishApplyAll

SpecApp == InitApp /\ [][NextApp]_vars

(* C2 -- every run of applyAllTransformations starts from the original image and
   applies the transforms of the current list once each, in list order, each to
   the result of the one before: while a run is under way its buffer is the fold
   of the transforms applied so far over the original, and whenever the app is
   at rest with an image, after any uploads, additions, removals and resets,
   the displayed result is the fold of the current list over the original. *)
C2_RecomputeIsFold ==
  /\ pc = "apply" =>
       /\ stageIdx \in 0..Len(activeTransformations)
       /\ currentImageData = Fold(originalImage, SubSeq(activeTransformations, 1, stageIdx))
  /\ (HandlerReady /\ originalImage # Null) =>
       processedImage = Fold(originalImage, activeTransformations)

\* At rest with two transforms whose order matters, the result differing from
\* the original and from what either transform alone gives.
C2_Witness ==
  /\ HandlerReady /\ originalImage # Null
  /\ Len(activeTransformations) = 2
  /\ processedImage = Fold(originalImage, activeTransformations)
  /\ processedImage # Fold(originalImage, <<activeTransformations[2], activeTransformations[1]>>)
  /\ processedImage # Fold(originalImage, <<activeTransformations[1]>>)
  /\ processedImage # Fold(originalImage, <<activeTransformations[2]>>)
  /\ processedImage # originalImage

(* C15 -- whatever the order of uploads, additions, removals and resets and of
   the recomputes they trigger, the result of the last pipeline wins: every
   write of the displayed result writes the fold of the list and image current
   at that moment, with no recompute left to run that an older mutation
   triggered, and whenever all triggered recomputes have finished the displayed
   result is the recompute of the current list over the current image. *)
C15_LastPipelineWins ==
  [][ /\ processedImage' # processedImage =>
           /\ processedImage' = Fold(originalImage', activeTransformations')
           /\ effectQueue' = <<>>
      /\ (pc' = "idle" /\ effectQueue' = <<>> /\ originalImage' # Null) =>
           processedImage' = Fold(originalImage', activeTransformations') ]_vars

\* The recompute a later mutation triggered is about to replace the displayed
\* result of an earlier, non-empty pipeline with a different one.
C15_Witness ==
  /\ pc = "apply" /\ stageIdx = Len(activeTransformations)
  /\ effectQueue = <<>>
  /\ processedImage # Null
  /\ processedImage # originalImage
  /\ processedImage # currentImageData
  /\ Len(activeTransformations) >= 1

-----------------------------------------------------------------------------
(* SpecRefs: the editing handlers of the App component at the level of object
   references.  heap[r] is the object with reference r: a transform object
   [type, params] whose params is the reference of a params object, or a params
   object.  currentTransform is the reference of the editor's transform object
   and activeTransformations a sequence of references of transform objects.
   params records the handler called last and its arguments. *)

\* Most objects a run of the model allocates, and the longest list it builds.
MaxObjects == 7
MaxListLen == 3

\* The transform an object reference stands for: its type and param values.
StageValue(h, r) == [type |-> h[r].type, params |-> h[h[r].params]]

\* prev => ({...prev, params: {...prev.params, [paramName]: value}}): a new
\* params object and a new transform object.
updatedTransformMutInPlace(h, prev, paramName, value) ==
  [heap |-> [h EXCEPT ![h[prev].params] = [@ EXCEPT ![paramName] = value]],
   ref |-> prev]
updatedTransform(h, prev, paramName, value) ==
  [heap |-> h \o << [h[h[prev].params] EXCEPT ![paramName] = value],
                    [type |-> h[prev].type, params |-> Len(h) + 1] >>,
   ref |-> Len(h) + 2]

\* {...currentTransform, type: e.target.value}: a new transform object with the
\* same params object.
retypedTransform(h, cur, type) ==
  [heap |-> Append(h, [h[cur] EXCEPT !.type = type]), ref |-> Len(h) + 1]

\* {...currentTransform}: a shallow copy.
shallowCopy(h, cur) == [heap |-> Append(h, h[cur]), ref |-> Len(h) + 1]

\* prev.filter((_, i) => i !== index), index counted from 0.
withoutIndexMutCountsFromOne(prev, index) ==
  LET keep == { k \in 1..Len(prev) : k # index }
  IN [j \in 1..Cardinality(keep) |->
        prev[CHOOSE k \in keep : Cardinality({ i \in keep : i < k }) = j - 1]]
withoutIndex(prev, index) ==
  LET keep == { k \in 1..Len(prev) : k - 1 # index }
  IN [j \in 1..Cardinality(keep) |->
        prev[CHOOSE k \in keep : Cardinality({ i \in keep : i < k }) = j - 1]]

\* The types picked and the sliders moved in this specification.
RefTypeChoices == {"contrast", "threshold"}
RefParamUpdates == { <<"contrastValue", 50>>, <<"thresholdValue", 90>> }

InitRefs ==
  /\ heap = << DefaultParams, [type |-> "contrast", params |-> 1] >>
  /\ currentTransform = 2
  /\ activeTransformations = <<>>
  /\ originalImage = Null
  /\ processedImage = Null /\ effectQueue = <<>>
  /\ params = Null
  /\ imageData = Null /\ resultData = Null
  /\ pc = "idle"
  /\ IdleLoop /\ IdleCanny /\ IdleSeg

\* img.onload of handleImageUpload
RefImageUpload ==
  /\ \E img \in AppImages : originalImage' = img
  /\ activeTransformations' = <<>>
  /\ params' = [handler |-> "handleImageUpload"]
  /\ UNCHANGED <<heapVars, currentTransform, processedImage, effectQueue, imageData,
                 resultData, pc, loopVars, cannyVars, segVars>>

\* onChange of the select
RefSelectType ==
  /\ Len(heap) + 1 <= MaxObjects
  /\ \E type \in RefTypeChoices :
       LET t == retypedTransform(heap, currentTransform, type)
       IN /\ heap' = t.heap
          /\ currentTransform' = t.ref
          /\ params' = [handler |-> "setCurrentTransform", type |-> type]
  /\ UNCHANGED <<originalImage, activeTransformations, processedImage, effectQueue,
                 imageData, resultData, pc, loopVars, cannyVars, segVars>>

RefUpdateParam ==
  /\ Len(heap) + 2 <= MaxObjects
  /\ \E u \in RefParamUpdates :
       LET t == updatedTransform(heap, currentTransform, u[1], u[2])
       IN /\ heap' = t.heap
          /\ currentTransform' = t.ref
          /\ params' = [handler |-> "updateCurrentTransformParam",
                        paramName |-> u[1], value |-> u[2]]
  /\ UNCHANGED <<originalImage, activeTransformations, processedImage, effectQueue,
                 imageData, resultData, pc, loopVars, cannyVars, segVars>>

\* The button is disabled without an image.
RefAddTransform ==
  /\ originalImage # Null
  /\ Len(heap) + 1 <= MaxObjects
  /\ Len(activeTransformations) < MaxListLen
  /\ LET t == shallowCopy(heap, currentTransform)
     IN /\ heap' = t.heap
        /\ activeTransformations' = Append(activeTransformations, t.ref)
  /\ params' = [handler |-> "addCurrentTransform"]
  /\ UNCHANGED <<originalImage, currentTransform, processedImage, effectQueue,
                 imageData, resultData, pc, loopVars, cannyVars, segVars>>

\* removeTransform(index): the list's buttons pass 0 .. length - 1; the
\* function takes any index.
RefRemoveTransform ==
  /\ \E index \in 0..MaxListLen :
       /\ activeTransformations' = withoutIndex(activeTransformations, index)
       /\ params' = [handler |-> "removeTransform", index |-> index]
  /\ UNCHANGED <<heapVars, originalImage, currentTransform, processedImage, effectQueue,
                 imageData, resultData, pc, loopVars, cannyVars, segVars>>

\* resetImage: if (originalImage) setActiveTransformations([])
RefResetImage ==
  /\ activeTransformations' = IF originalImage # Null THEN <<>> ELSE activeTransformations
  /\ params' = [handler |-> "resetImage"]
  /\ UNCHANGED <<heapVars, originalImage, currentTransform, processedImage, effectQueue,
                 imageData, resultData, pc, loopVars, cannyVars, segVars>>

NextRefs ==
  \/ RefImageUpload \/ RefSelectType \/ RefUpdateParam
  \/ RefAddTransform \/ RefRemoveTransform \/ RefResetImage

SpecRefs == InitRefs /\ [][NextRefs]_vars

(* C14 -- a transform is immutable once appended: whatever handler runs next
   (a slider or type change of the editor, an append, a removal of another
   transform), every transform object that is in the list before and after the
   step stands for the same type and the same param values after it. *)
C14_AppendedTransformImmutable ==
  [][ \A k \in 1..Len(activeTransformations) :
        (\E j \in 1..Len(activeTransformations') :
            activeTransformations'[j] = activeTransformations[k])
        => StageValue(heap', activeTransformations[k])
             = StageValue(heap, activeTransformations[k]) ]_vars

\* A transform was appended while it shared its params object with the editor,
\* and the editor has since moved to another type and other values.
C14_Witness ==
  /\ Len(activeTransformations) = 2
  /\ \E k \in 1..2 :
       /\ StageValue(heap, activeTransformations[k]) = [type |-> "contrast",
                                                         params |-> DefaultParams]
       /\ heap[activeTransformations[k]].params = 1
  /\ StageValue(heap, currentTransform).type = "threshold"
  /\ StageValue(heap, currentTransform).params.contrastValue = 50
  /\ StageValue(heap, activeTransformations[1]) # StageValue(heap, activeTransformations[2])

(* C16 -- the list changes only by three mutations.  addCurrentTransform puts
   a transform with the editor's type and values at the end and keeps the
   others in place; removeTransform(index) removes exactly the entry at that
   index, keeps the order of the others, and leaves the list as it is when the
   index is out of range; resetImage and a new image leave the list empty; the
   editor's handlers leave it alone.  The list is non-empty only with an
   image. *)
C16_ListMutations ==
  [][ LET prev == activeTransformations
          next == activeTransformations'
          call == params'
      IN /\ call.handler = "addCurrentTransform" =>
              /\ Len(next) = Len(prev) + 1
              /\ SubSeq(next, 1, Len(prev)) = prev
              /\ StageValue(heap', next[Len(next)]) = StageValue(heap, currentTransform)
         /\ call.handler = "removeTransform" =>
              IF call.index \in 0..(Len(prev) - 1)
              THEN /\ Len(next) = Len(prev) - 1
                   /\ \A k \in 1..Len(next) :
                        next[k] = prev[IF k - 1 < call.index THEN k ELSE k + 1]
              ELSE next = prev
         /\ call.handler \in {"resetImage", "handleImageUpload"} => next = <<>>
         /\ call.handler \in {"setCurrentTransform", "updateCurrentTransformParam"} =>
              next = prev
         /\ next # <<>> => originalImage' # Null ]_vars

\* The middle one of three different transforms has just been removed: the
\* first and the last are left, in that order.
C16_Witness ==
  /\ params # Null
  /\ params.handler = "removeTransform" /\ params.index = 1
  /\ Len(activeTransformations) = 2
  /\ activeTransformations[2] > activeTransformations[1] + 1
  /\ StageValue(heap, activeTransformations[1]) # StageValue(heap, activeTransformations[2])

-----------------------------------------------------------------------------
(* The operators at the level of array references.  heap[r] holds the bytes of
   the Uint8ClampedArray with reference r; an ImageData here is
   [width, height, data] with data a reference.  Each operator gives the heap
   after the call and the ImageData it returns; the bytes its loops leave in
   the array they write are those the operators above compute. *)

\* new Uint8ClampedArray(array): a new array with a copy of the bytes.
newUint8ClampedArrayMutAlias(h, ref) == [heap |-> h, ref |-> ref]
newUint8ClampedArray(h, ref) == [heap |-> Append(h, h[ref]), ref |-> Len(h) + 1]

\* new Uint8ClampedArray(length): a new zero-filled array.
newZeroArray(h, length) ==
  [heap |-> Append(h, [i \in 0..(length - 1) |-> 0]), ref |-> Len(h) + 1]

\* The ImageData value (bytes instead of a reference) of img in heap h.
Deref(h, img) == ImageData(h[img.data], img.width, img.height)

\* The loops of an operator have written bytes into the array a.ref, and
\* new ImageData(that array, width, height) is returned.
written(a, bytes, width, height) ==
  [heap |-> [a.heap EXCEPT ![a.ref] = bytes], image |-> ImageData(a.ref, width, height)]

\* const data = new Uint8ClampedArray(imageData.data); the loop writes data.
heapContrast(h, img, contrast) ==
  written(newUint8ClampedArray(h, img.data),
          applyContrast(Deref(h, img), contrast).data, img.width, img.height)

heapBrightness(h, img, brightness) ==
  written(newUint8ClampedArray(h, img.data),
          applyBrightness(Deref(h, img), brightness).data, img.width, img.height)

heapGrayscale(h, img) ==
  written(newUint8ClampedArray(h, img.data),
          applyGrayscale(Deref(h, img)).data, img.width, img.height)

\* data = new Uint8ClampedArray(imageData.data);
\* resultData = new Uint8ClampedArray(data); the loop writes resultData.
writtenSecondCopy(h, img, bytes) ==
  LET data == newUint8ClampedArray(h, img.data)
  IN written(newUint8ClampedArray(data.heap, data.ref), bytes, img.width, img.height)

\* if (amount === 0) return imageData
heapSharpen(h, img, amount) ==
  IF amount = 0 THEN [heap |-> h, image |-> img]
  ELSE writtenSecondCopy(h, img, applySharpen(Deref(h, img), amount).data)

\* data = applyGrayscale(imageData).data; the loop writes data.
heapThreshold(h, img, threshold) ==
  LET grayscaleData == heapGrayscale(h, img)
  IN written([heap |-> grayscaleData.heap, ref |-> grayscaleData.image.data],
             applyThreshold(Deref(h, img), threshold).data, img.width, img.height)

\* data = applyGrayscale(imageData).data;
\* resultData = new Uint8ClampedArray(data.length); the loops write resultData.
heapSobel(h, img) ==
  LET grayscaleData == heapGrayscale(h, img)
  IN written(newZeroArray(grayscaleData.heap,
                          Length(grayscaleData.heap[grayscaleData.image.data])),
             applySobelEdgeDetection(Deref(h, img)).data, img.width, img.height)

heapGaussianBlur(h, img) ==
  writtenSecondCopy(h, img, applyGaussianBlur(Deref(h, img)).data)

heapCanny(h, img, lowThreshold, highThreshold) ==
  LET blurred == heapGaussianBlur(h, img)
      sobel == heapSobel(blurred.heap, blurred.image)
  IN written(newZeroArray(sobel.heap, Length(sobel.heap[sobel.image.data])),
             applyCannyEdgeDetection(Deref(h, img), lowThreshold, highThreshold).data,
             img.width, img.height)

\* data = new Uint8ClampedArray(imageData.data);
\* resultData = new Uint8ClampedArray(data); the painting loop writes resultData.
\* image is Null when the call never returns.
heapSegmentation(h, img, tolerance, minSize, colorScheme, hues) ==
  LET result == applySegmentation(Deref(h, img), tolerance, minSize, colorScheme, hues)
  IN IF result = Null THEN [heap |-> h, image |-> Null]
     ELSE writtenSecondCopy(h, img, result.data)

\* applyTransformation(imageData, transform) on references.
heapTransformation(h, img, transform, hues) ==
  LET type == transform.type
      ps == transform.params
  IN CASE type = "contrast" -> heapContrast(h, img, ps.contrastValue)
       [] type = "brightness" -> heapBrightness(h, img, ps.brightnessValue)
       [] type = "sharpening" -> heapSharpen(h, img, ps.sharpnessValue)
       [] type = "threshold" -> heapThreshold(h, img, ps.thresholdValue)
       [] type = "grayscale" -> heapGrayscale(h, img)
       [] type = "edges" -> heapSobel(h, img)
       [] type = "canny" -> heapCanny(h, img, ps.cannyLow, ps.cannyHigh)
       [] type = "segmentation" ->
            heapSegmentation(h, img, ps.segmentTolerance, ps.segmentMinSize,
                             ps.colorScheme, hues)
       [] OTHER -> [heap |-> h, image |-> img]

-----------------------------------------------------------------------------
(* SpecHeap: one run of applyAllTransformations on array references, the
   transform of each iteration drawn when the iteration runs *)

\* A 3x3 and a 5x5 picture (sharpening, Sobel and the blur reach their centres).
HeapImages ==
  { MkImage(3, 3, [p \in 0..8 |-> IF p \in {0, 1, 3, 4} THEN PipeRed ELSE PipeGrey]),
    MkImage(5, 5, [p \in 0..24 |-> IF p % 5 < 2 THEN PipeRed ELSE PipeGrey]) }

HeapTransforms ==
  { Transform("contrast", [contrastValue |-> 50]),
    Transform("brightness", [brightnessValue |-> 150]),
    Transform("sharpening", NoChange),
    Transform("sharpening", [sharpnessValue |-> 5]),
    Transform("threshold", NoChange),
    Transform("grayscale", NoChange),
    Transform("edges", NoChange),
    Transform("canny", [cannyLow |-> 30, cannyHigh |-> 100]),
    Transform("invert", NoChange),
    Transform("segmentation",
              [segmentTolerance |-> 10, segmentMinSize |-> 1, colorScheme |-> "pastel"]) }

\* The original is drawn on the canvas and getImageData has given the loop its
\* first buffer, array 1.
InitHeap ==
  /\ originalImage \in HeapImages
  /\ heap = << originalImage.data >>
  /\ currentImageData = ImageData(1, originalImage.width, originalImage.height)
  /\ stageIdx = 0
  /\ activeTransformations = <<>>
  /\ processedImage = Null /\ currentTransform = Null /\ effectQueue = <<>>
  /\ pc = "apply"
  /\ IdleCall /\ IdleCanny /\ IdleSeg

\* One iteration of the loop: currentImageData = applyTransformation(...).
\* activeTransformations records the transforms of the iterations so far.
HeapApplyStage ==
  /\ pc = "apply"
  /\ stageIdx < MaxStages
  /\ \E transform \in HeapTransforms :
       \E hues \in HuesFor(Deref(heap, currentImageData), transform) :
          LET result == heapTransformation(heap, currentImageData, transform, hues)
          IN /\ result.image # Null
             /\ heap' = result.heap
             /\ currentImageData' = result.image
             /\ activeTransformations' = Append(activeTransformations, transform)
  /\ stageIdx' = stageIdx + 1
  /\ UNCHANGED <<originalImage, processedImage, currentTransform, effectQueue,
                 callVars, pc, cannyVars, segVars>>

\* putImageData(currentImageData) and setProcessedImage: the bytes are read.
HeapFinish ==
  /\ pc = "apply"
  /\ processedImage' = Deref(heap, currentImageData)
  /\ pc' = "idle"
  /\ UNCHANGED <<originalImage, activeTransformations, currentTransform, effectQueue,
                 loopVars, callVars, cannyVars, segVars, heapVars>>

NextHeap == HeapApplyStage \/ HeapFinish

SpecHeap == InitHeap /\ [][NextHeap]_vars

(* C11 -- no operator writes to the bytes of the array it receives: every step
   of a run leaves the bytes of every array that exists before the step as they
   are, and the loop's first buffer (array 1, the source) holds the original
   bytes after any stage and after the whole run. *)
C11_InputBuffersUntouched ==
  [][ /\ \A r \in 1..Len(heap) : r <= Len(heap') /\ heap'[r] = heap[r]
      /\ heap'[1] = originalImage.data ]_vars

\* The run has ended after a grayscale and a threshold (which writes into the
\* array its own grayscale call returned): the displayed bytes are in a later
\* array and differ from the source's, which are still in array 1.
C11_Witness ==
  /\ pc = "idle"
  /\ Len(activeTransformations) = 2
  /\ activeTransformations[1].type = "grayscale"
  /\ activeTransformations[2].type = "threshold"
  /\ currentImageData.data > 2
  /\ processedImage = Deref(heap, currentImageData)
  /\ processedImage.data # heap[1]
  /\ heap[1] = originalImage.data

====
